---- MODULE Spec2Model ----
(***************************************************************************)
(* Model of the GECK generator core: the profile managers                  *)
(* (geck_generator/core/profiles.py), the template engine                  *)
(* (geck_generator/core/templates.py) and the generator with its content   *)
(* derivation helpers (geck_generator/core/generator.py).                  *)
(*                                                                         *)
(* Python values.  A str is a sequence of symbols; a symbol is one of the  *)
(* special characters " ", "\n", "-", "*", "_", "'" ... or an unbroken run  *)
(* of ordinary characters written as one TLA+ string ("Python").  A value  *)
(* of a dict is tagged with its Python type: None, str or list.  A dict is *)
(* a function whose DOMAIN is the set of keys present.                     *)
(***************************************************************************)
EXTENDS Integers, Sequences, FiniteSets, TLC

VARIABLES
    builtin_profiles, \* ProfileManager._profiles: the records of PROFILES, by name
    custom_profiles,  \* ProfileManager._custom_profiles, in insertion order
    config,           \* the configuration mapping the caller holds
    goal,             \* the goal argument of _parse_goal_to_bullets
    call,             \* the last operation called, with its arguments
    ret,              \* what that operation returned or raised
    config0,          \* history: the configuration the caller started from
    adds,             \* history: the add_profile or add_template calls, or the
                      \* manual edits of the disk, so far
    args,             \* the other arguments of the operation under study
    custom_templates, \* TemplateEngine._custom_templates
    loaded,           \* the templates the jinja2 environment has cached, by name
    fs,               \* the disk: path -> Str(stored text) of a file, or Dir
    today,            \* the current local date, datetime.now()
    linesep           \* os.linesep of the platform the program runs on

vars == <<builtin_profiles, custom_profiles, config, goal, call, ret, config0,
          adds, args, custom_templates, loaded, fs, today, linesep>>

\* The built-in profile table and the state of the template engine, the
\* disk and the platform.
engine_vars == <<builtin_profiles, args, custom_templates, loaded, fs, today,
                 linesep>>

----------------------------------------------------------------------------
(* Bounds *)

MaxConfigKeys == 1     \* mapped keys present in a starting configuration
MaxAdds == 2           \* add_profile calls in one behaviour
MaxTaskLen == 2        \* symbols in initial_task or in one criterion
MaxCriteria == 2       \* entries of success_criteria
MaxGoalLen == 4        \* symbols in a goal string
MaxReporGoals == 2     \* exploration goals the caller passes
MaxListLen == 2        \* entries of frameworks or platforms handed to render
MaxEdits == 2          \* manual edits of the documents in one behaviour

----------------------------------------------------------------------------
(* Python values *)

None == [t |-> "none", v |-> <<>>]
Str(s) == [t |-> "str", v |-> s]
List(l) == [t |-> "list", v |-> l]

\* bool(x) for None, str and list
Truthy(x) == x.t # "none" /\ Len(x.v) > 0

EmptyDict == [k \in {} |-> None]

\* d[k] = v
Put(d, k, v) == [x \in DOMAIN d \cup {k} |-> IF x = k THEN v ELSE d[x]]

\* d.get(k, default)
Get(d, k, default) == IF k \in DOMAIN d THEN d[k] ELSE default

\* sep.join(ss)
RECURSIVE Join(_, _)
Join(ss, sep) ==
    IF ss = <<>> THEN <<>>
    ELSE IF Len(ss) = 1 THEN Head(ss)
    ELSE Head(ss) \o sep \o Join(Tail(ss), sep)

\* sub in s
Contains(s, sub) ==
    \E i \in 1..(Len(s) - Len(sub) + 1) : SubSeq(s, i, i + Len(sub) - 1) = sub

Last(s) == s[Len(s)]

----------------------------------------------------------------------------
(* str methods *)

NL == "\n"
Whitespace == {" ", NL, "\t"}
BulletChars == {"-", "*"}

\* s.lstrip(chars)
RECURSIVE LStripChars(_, _)
LStripChars(s, chars) ==
    IF s # <<>> /\ Head(s) \in chars THEN LStripChars(Tail(s), chars) ELSE s

\* s.rstrip(chars)
RECURSIVE RStripChars(_, _)
RStripChars(s, chars) ==
    IF s # <<>> /\ Last(s) \in chars
    THEN RStripChars(SubSeq(s, 1, Len(s) - 1), chars)
    ELSE s

\* s.strip()
Strip(s) == RStripChars(LStripChars(s, Whitespace), Whitespace)

\* s.split(sep) for a one-character sep: always at least one piece
RECURSIVE Split(_, _)
Split(s, sep) ==
    IF \A i \in DOMAIN s : s[i] # sep THEN <<s>>
    ELSE LET i == CHOOSE j \in DOMAIN s :
                      s[j] = sep /\ \A m \in 1..(j - 1) : s[m] # sep
         IN <<SubSeq(s, 1, i - 1)>> \o Split(SubSeq(s, i + 1, Len(s)), sep)

\* s.startswith(c) for some c in chars
StartsWithAny(s, chars) == s # <<>> /\ Head(s) \in chars

----------------------------------------------------------------------------
(* The built-in profile table (three of its entries, values abridged) *)

web_app == <<"web", "_", "app">>
cli_tool == <<"cli", "_", "tool">>
library == <<"library">>
custom_test == <<"custom", "_", "test">>
nonexistent_profile == <<"nonexistent", "_", "profile">>

PROFILES_keys == <<web_app, cli_tool, library>>

PROFILES ==
    [n \in {web_app, cli_tool, library} |->
        IF n = web_app THEN
            [name |-> Str(<<"Web", " ", "App">>),
             description |-> Str(<<"Interactive", " ", "application">>),
             languages |-> Str(<<"JavaScript/TypeScript,", " ", "Python">>),
             frameworks |-> List(<< <<"React">>, <<"Vue">> >>),
             platforms |-> List(<< <<"Web">>, <<"Linux">> >>),
             suggested_criteria |->
                 List(<< <<"Application", " ", "loads">>,
                         <<"State", " ", "management", " ", "works">> >>),
             suggested_must_use |-> Str(<<"Component", " ", "architecture">>),
             suggested_must_avoid |-> Str(<<"prop", " ", "drilling">>)]
        ELSE IF n = cli_tool THEN
            [name |-> Str(<<"CLI", " ", "Tool">>),
             description |-> Str(<<"Command-line", " ", "application">>),
             languages |-> Str(<<"Python">>),
             frameworks |-> List(<< <<"Click">>, <<"Typer">> >>),
             platforms |-> List(<< <<"Linux">>, <<"Windows">> >>),
             suggested_criteria |->
                 List(<< <<"All", " ", "commands", " ", "execute">>,
                         <<"Exit", " ", "codes", " ", "are", " ", "correct">> >>),
             suggested_must_use |-> Str(<<"Type", " ", "hints">>),
             suggested_must_avoid |-> Str(<<"Hardcoded", " ", "paths">>)]
        ELSE
            [name |-> Str(<<"Library", " ", "/", " ", "Package">>),
             description |-> Str(<<"Reusable", " ", "library">>),
             languages |-> Str(<<"Python,", " ", "Rust">>),
             frameworks |-> List(<<>>),
             platforms |-> List(<< <<"Linux">>, <<"Windows">> >>),
             suggested_criteria |->
                 List(<< <<"All", " ", "public", " ", "APIs", " ", "documented">>,
                         <<"Unit", " ", "tests", " ", "pass">> >>),
             suggested_must_use |-> Str(<<"docstrings">>),
             suggested_must_avoid |-> Str(<<"circular", " ", "dependencies">>)]]

----------------------------------------------------------------------------
(* Outcomes of a call *)

Return(v) == [ok |-> TRUE, exc |-> "", val |-> v]
Raise(exc, msg) == [ok |-> FALSE, exc |-> exc, val |-> Str(msg)]

----------------------------------------------------------------------------
(* ProfileManager *)

\* name in self._custom_profiles
InCustom(cp, name) == \E i \in DOMAIN cp : cp[i].key = name

\* self._custom_profiles[name]
CustomAt(cp, name) == cp[CHOOSE i \in DOMAIN cp : cp[i].key = name].val

\* list(self._custom_profiles.keys())
CustomKeys(cp) == [i \in DOMAIN cp |-> cp[i].key]

\* repr() of a list of str
ListRepr(names) ==
    <<"[">> \o Join([i \in DOMAIN names |-> <<"'">> \o names[i] \o <<"'">>],
                    <<",", " ">>) \o <<"]">>

list_profiles_builtin_only(cp) == PROFILES_keys

list_profiles(cp) == PROFILES_keys \o CustomKeys(cp)

NotFoundMessage(cp, name) ==
    <<"Profile", " ", "'">> \o name \o <<"'", " ", "not", " ", "found.", " ",
      "Available:", " ">> \o ListRepr(list_profiles(cp))

get_profile_builtin_first(cp, name) ==
    IF name \in DOMAIN PROFILES THEN Return(PROFILES[name])
    ELSE IF InCustom(cp, name) THEN Return(CustomAt(cp, name))
    ELSE Raise("KeyError", NotFoundMessage(cp, name))

get_profile(cp, name) ==
    IF InCustom(cp, name) THEN Return(CustomAt(cp, name))
    ELSE IF name \in DOMAIN PROFILES THEN Return(PROFILES[name])
    ELSE Raise("KeyError", NotFoundMessage(cp, name))

\* profile field -> config field, in the order of the mappings dict
mappings ==
    << <<"languages", "languages">>,
       <<"frameworks", "frameworks">>,
       <<"platforms", "platforms">>,
       <<"suggested_criteria", "success_criteria">>,
       <<"suggested_must_use", "must_use">>,
       <<"suggested_must_avoid", "must_avoid">> >>

\* the loop with the test for an existing value dropped
RECURSIVE MergeFields_override(_, _, _)
MergeFields_override(profile, result, i) ==
    IF i > Len(mappings) THEN result
    ELSE MergeFields_override(
             profile,
             IF mappings[i][1] \in DOMAIN profile
             THEN Put(result, mappings[i][2], profile[mappings[i][1]])
             ELSE result,
             i + 1)

\* the loop filling only the keys that are missing
RECURSIVE MergeFields_absent_only(_, _, _)
MergeFields_absent_only(profile, result, i) ==
    IF i > Len(mappings) THEN result
    ELSE MergeFields_absent_only(
             profile,
             IF mappings[i][1] \in DOMAIN profile /\ mappings[i][2] \notin DOMAIN result
             THEN Put(result, mappings[i][2], profile[mappings[i][1]])
             ELSE result,
             i + 1)

\* the loop over mappings.items(), from its i-th item on
RECURSIVE MergeFields(_, _, _)
MergeFields(profile, result, i) ==
    IF i > Len(mappings) THEN result
    ELSE LET profile_key == mappings[i][1]
             config_key == mappings[i][2]
             next == IF /\ profile_key \in DOMAIN profile
                        /\ \/ config_key \notin DOMAIN result
                           \/ ~Truthy(result[config_key])
                     THEN Put(result, config_key, profile[profile_key])
                     ELSE result
         IN MergeFields(profile, next, i + 1)

\* apply_profile with the metadata set by setdefault
apply_profile_keeps_metadata(cp, base_config, profile_name) ==
    LET got == get_profile(cp, profile_name) IN
    IF ~got.ok THEN got
    ELSE LET profile == got.val
             merged == MergeFields(profile, base_config, 1)
             named == IF "_profile_name" \in DOMAIN merged THEN merged
                      ELSE Put(merged, "_profile_name", Str(profile_name))
         IN Return(IF "_profile_display_name" \in DOMAIN named THEN named
                   ELSE Put(named, "_profile_display_name",
                            Get(profile, "name", Str(profile_name))))

apply_profile(cp, base_config, profile_name) ==
    LET got == get_profile(cp, profile_name) IN
    IF ~got.ok THEN got
    ELSE LET profile == got.val
             merged == MergeFields(profile, base_config, 1)
             named == Put(merged, "_profile_name", Str(profile_name))
         IN Return(Put(named, "_profile_display_name",
                       Get(profile, "name", Str(profile_name))))

\* str.title() of one symbol
TitleSymbol(sym) ==
    CASE sym = "custom" -> "Custom"
      [] sym = "test" -> "Test"
      [] sym = "web" -> "Web"
      [] sym = "app" -> "App"
      [] OTHER -> sym

\* name.replace("_", " ").title()
TitleName(name) ==
    [i \in DOMAIN name |-> IF name[i] = "_" THEN " " ELSE TitleSymbol(name[i])]

add_profile(cp, name, profile) ==
    LET stored == IF "name" \notin DOMAIN profile
                  THEN Put(profile, "name", Str(TitleName(name)))
                  ELSE profile
    IN IF InCustom(cp, name)
       THEN [i \in DOMAIN cp |->
                IF cp[i].key = name THEN [key |-> name, val |-> stored]
                ELSE cp[i]]
       ELSE Append(cp, [key |-> name, val |-> stored])

----------------------------------------------------------------------------
(* Inputs of the profile operations *)

MappedKeys ==
    {"languages", "frameworks", "platforms", "success_criteria", "must_use",
     "must_avoid"}

StrKeys == {"languages", "must_use", "must_avoid"}

StrInputs == {None, Str(<<>>), Str(<<" ">>), Str(<<"Rust">>)}
ListInputs == {None, List(<<>>), List(<< <<"Mine">> >>)}

ValuesFor(k) == IF k \in StrKeys THEN StrInputs ELSE ListInputs

StartConfigs ==
    UNION { { Put(c, "project_name", Str(<<"Test">>)) :
                c \in {d \in [K -> StrInputs \cup ListInputs] :
                          \A k \in K : d[k] \in ValuesFor(k)} } :
            K \in {S \in SUBSET MappedKeys : Cardinality(S) <= MaxConfigKeys} }

\* the profile of test_add_profile, with one field defined but empty
CustomGo ==
    [name |-> Str(<<"Custom", " ", "Test">>),
     description |-> Str(<<"A", " ", "custom", " ", "test", " ", "profile">>),
     languages |-> Str(<<"Go">>),
     frameworks |-> List(<<>>)]

\* a profile without a display name
CustomUnnamed ==
    [languages |-> Str(<<"Zig">>),
     frameworks |-> List(<< <<"Axum">> >>),
     platforms |-> List(<< <<"BSD">> >>),
     suggested_criteria |-> List(<< <<"It", " ", "builds">> >>),
     suggested_must_use |-> Str(<<"clippy">>),
     suggested_must_avoid |-> Str(<<"unsafe">>)]

ProfileInputs == {CustomGo, CustomUnnamed}
AddNames == {web_app, custom_test}
LookupNames == {web_app, custom_test, nonexistent_profile}

----------------------------------------------------------------------------
(* The profile manager as a state machine *)

NoCall == [op |-> "none", name |-> <<>>, base |-> EmptyDict]

\* A freshly built engine on an empty disk: TemplateEngine.__init__ leaves
\* _custom_templates empty and nothing is loaded yet.
EngineIdle ==
    /\ builtin_profiles = PROFILES
    /\ args = EmptyDict
    /\ custom_templates = EmptyDict
    /\ loaded = EmptyDict
    /\ fs = EmptyDict
    /\ today = [year |-> 2026, month |-> 1, day |-> 5]
    /\ linesep = <<"\n">>

InitProfiles ==
    /\ custom_profiles = <<>>
    /\ config \in StartConfigs
    /\ config0 = config
    /\ goal = None
    /\ call = NoCall
    /\ ret = Return(None)
    /\ adds = <<>>
    /\ EngineIdle

AddProfile ==
    \E name \in AddNames, profile \in ProfileInputs :
        /\ Len(adds) < MaxAdds
        /\ custom_profiles' = add_profile(custom_profiles, name, profile)
        /\ adds' = Append(adds, [name |-> name, profile |-> profile])
        /\ call' = [op |-> "add_profile", name |-> name, base |-> EmptyDict]
        /\ ret' = Return(None)
        /\ UNCHANGED <<config, goal, config0>>
        /\ UNCHANGED engine_vars

GetProfile ==
    \E name \in LookupNames :
        /\ ret' = get_profile(custom_profiles, name)
        /\ call' = [op |-> "get_profile", name |-> name, base |-> EmptyDict]
        /\ UNCHANGED <<custom_profiles, config, goal, config0, adds>>
        /\ UNCHANGED engine_vars

\* config = manager.apply_profile(config, name)
ApplyProfile ==
    \E name \in LookupNames :
        LET r == apply_profile(custom_profiles, config, name) IN
        /\ ret' = r
        /\ call' = [op |-> "apply_profile", name |-> name, base |-> config]
        /\ config' = IF r.ok THEN r.val ELSE config
        /\ UNCHANGED <<custom_profiles, goal, config0, adds>>
        /\ UNCHANGED engine_vars

NextProfiles == AddProfile \/ GetProfile \/ ApplyProfile

SpecProfiles == InitProfiles /\ [][NextProfiles]_vars

----------------------------------------------------------------------------
(* GECKGenerator: content derivation *)

DEFAULT_INITIAL_TASK ==
    <<"Compile", " ", "task", " ", "list", " ", "from", " ", "log", " ", "and",
      " ", "LLM_init", " ", "entries">>

\* the loop over the success criteria: append each non-blank one, stripped
RECURSIVE AppendCriteria(_, _)
AppendCriteria(tasks, criteria) ==
    IF criteria = <<>> THEN tasks
    ELSE AppendCriteria(
             IF Strip(Head(criteria)) # <<>>
             THEN Append(tasks, Strip(Head(criteria)))
             ELSE tasks,
             Tail(criteria))

\* _derive_initial_tasks with the two appending steps swapped
_derive_initial_tasks_criteria_first(cfg) ==
    LET it == Get(cfg, "initial_task", Str(<<>>))
        sc == Get(cfg, "success_criteria", List(<<>>))
    IN IF it.t # "str"
       THEN Raise("AttributeError", <<"no", " ", "attribute", " ", "'strip'">>)
       ELSE IF sc.t = "none"
       THEN Raise("TypeError", <<"'NoneType'", " ", "object", " ", "is", " ",
                                 "not", " ", "iterable">>)
       ELSE LET t1 == AppendCriteria(<<DEFAULT_INITIAL_TASK>>, sc.v)
            IN Return(List(IF Strip(it.v) # <<>>
                           THEN Append(t1, Strip(it.v)) ELSE t1))

_derive_initial_tasks(cfg) ==
    LET it == Get(cfg, "initial_task", Str(<<>>))
        sc == Get(cfg, "success_criteria", List(<<>>))
    IN IF it.t # "str"
       THEN Raise("AttributeError", <<"no", " ", "attribute", " ", "'strip'">>)
       ELSE LET initial_task == Strip(it.v)
                t1 == IF initial_task # <<>>
                      THEN <<DEFAULT_INITIAL_TASK, initial_task>>
                      ELSE <<DEFAULT_INITIAL_TASK>>
            IN IF sc.t = "none"
               THEN Raise("TypeError", <<"'NoneType'", " ", "object", " ",
                                         "is", " ", "not", " ", "iterable">>)
               ELSE Return(List(AppendCriteria(t1, sc.v)))

NoGoalSpecified == <<"No", " ", "goal", " ", "specified">>

\* the loop removing one bullet character instead of the leading run
RECURSIVE BulletsOfLines_one_marker(_, _)
BulletsOfLines_one_marker(bullets, lines) ==
    IF lines = <<>> THEN bullets
    ELSE LET line == Strip(Head(lines))
             stripped == Strip(IF StartsWithAny(line, BulletChars)
                               THEN Tail(line) ELSE line)
         IN BulletsOfLines_one_marker(
                IF line # <<>> /\ stripped # <<>>
                THEN Append(bullets, stripped) ELSE bullets,
                Tail(lines))

\* the loop keeping a line that is empty once its bullet characters are removed
RECURSIVE BulletsOfLines_keep_blank(_, _)
BulletsOfLines_keep_blank(bullets, lines) ==
    IF lines = <<>> THEN bullets
    ELSE LET line == Strip(Head(lines))
             stripped == Strip(LStripChars(line, BulletChars))
         IN BulletsOfLines_keep_blank(
                IF line # <<>> THEN Append(bullets, stripped) ELSE bullets,
                Tail(lines))

\* the loop over the lines of the goal
RECURSIVE BulletsOfLines(_, _)
BulletsOfLines(bullets, lines) ==
    IF lines = <<>> THEN bullets
    ELSE LET line == Strip(Head(lines))
             stripped == Strip(LStripChars(line, BulletChars))
         IN BulletsOfLines(
                IF line # <<>> /\ stripped # <<>>
                THEN Append(bullets, stripped) ELSE bullets,
                Tail(lines))

_parse_goal_to_bullets_none_only(g) ==
    IF g.t = "none" THEN Return(List(<<NoGoalSpecified>>))
    ELSE LET bullets == BulletsOfLines(<<>>, Split(Strip(g.v), NL))
         IN Return(List(IF bullets = <<>> THEN <<Strip(g.v)>> ELSE bullets))

_parse_goal_to_bullets_no_fallback(g) ==
    IF ~Truthy(g) THEN Return(List(<<NoGoalSpecified>>))
    ELSE Return(List(BulletsOfLines(<<>>, Split(Strip(g.v), NL))))

_parse_goal_to_bullets(g) ==
    IF ~Truthy(g) THEN Return(List(<<NoGoalSpecified>>))
    ELSE LET bullets == BulletsOfLines(<<>>, Split(Strip(g.v), NL))
         IN Return(List(IF bullets = <<>> THEN <<Strip(g.v)>> ELSE bullets))

----------------------------------------------------------------------------
(* Inputs of the content derivation *)

\* the sequences over S of length at most n
SeqUpTo(S, n) == UNION {[1..m -> S] : m \in 0..n}

TaskStrings == SeqUpTo({" ", "a"}, MaxTaskLen)

\* a key the caller leaves out of the configuration
Absent == [t |-> "absent", v |-> <<>>]

TaskConfigs ==
    LET its == {Absent, None} \cup {Str(s) : s \in TaskStrings}
        scs == {Absent, None}
                   \cup {List(l) : l \in SeqUpTo(TaskStrings, MaxCriteria)}
        With(d, k, v) == IF v = Absent THEN d ELSE Put(d, k, v)
    IN { With(With(EmptyDict, "initial_task", it), "success_criteria", sc) :
           it \in its, sc \in scs }

GoalInputs == {None} \cup {Str(s) : s \in SeqUpTo({" ", NL, "-", "*", "a"}, MaxGoalLen)}

----------------------------------------------------------------------------
(* derive_initial_tasks applied to every configuration of the data model *)

InitTasks ==
    /\ custom_profiles = <<>>
    /\ config \in TaskConfigs
    /\ config0 = config
    /\ goal = None
    /\ call = NoCall
    /\ ret = Return(None)
    /\ adds = <<>>
    /\ EngineIdle

DeriveInitialTasks ==
    /\ call.op = "none"
    /\ ret' = _derive_initial_tasks(config)
    /\ call' = [op |-> "_derive_initial_tasks", name |-> <<>>, base |-> config]
    /\ UNCHANGED <<custom_profiles, config, goal, config0, adds>>
    /\ UNCHANGED engine_vars

NextTasks == DeriveInitialTasks

SpecTasks == InitTasks /\ [][NextTasks]_vars

----------------------------------------------------------------------------
(* parse_goal_to_bullets applied to every goal *)

InitGoal ==
    /\ custom_profiles = <<>>
    /\ config = EmptyDict
    /\ config0 = config
    /\ goal \in GoalInputs
    /\ call = NoCall
    /\ ret = Return(None)
    /\ adds = <<>>
    /\ EngineIdle

ParseGoalToBullets ==
    /\ call.op = "none"
    /\ ret' = _parse_goal_to_bullets(goal)
    /\ call' = [op |-> "_parse_goal_to_bullets", name |-> <<>>, base |-> EmptyDict]
    /\ UNCHANGED <<custom_profiles, config, goal, config0, adds>>
    /\ UNCHANGED engine_vars

NextGoal == ParseGoalToBullets

SpecGoal == InitGoal /\ [][NextGoal]_vars

----------------------------------------------------------------------------
(* Properties of the profile manager, checked under SpecProfiles *)

Applied == call.op = "apply_profile" /\ ret.ok

\* the profile that call.name names in the current tables
NamedProfile == get_profile(custom_profiles, call.name).val

\* the add_profile calls made under name, oldest first
AddsUnder(name) == SelectSeq(adds, LAMBDA a : a.name = name)

Populated(c, k) == k \in DOMAIN c /\ Truthy(c[k])

\* C1: a mapped key that holds a non-empty value keeps that value through
\* apply_profile, both from the configuration passed to the call and from the
\* configuration the caller started with, whatever profiles were applied in
\* between.
C1_NeverOverride ==
    Applied =>
        \A k \in MappedKeys :
            /\ Populated(call.base, k) =>
                   k \in DOMAIN ret.val /\ ret.val[k] = call.base[k]
            /\ Populated(config0, k) =>
                   k \in DOMAIN config /\ config[k] = config0[k]

\* a second, different profile is applied to a configuration whose populated
\* key the profile also defines with another value
C1_Witness ==
    /\ Applied
    /\ "_profile_name" \in DOMAIN call.base
    /\ call.base["_profile_name"] # Str(call.name)
    /\ \E i \in DOMAIN mappings :
           /\ Populated(config0, mappings[i][2])
           /\ mappings[i][1] \in DOMAIN NamedProfile
           /\ NamedProfile[mappings[i][1]] # config0[mappings[i][2]]
           /\ config[mappings[i][2]] = config0[mappings[i][2]]

\* C2: for each mapped pair, when the profile defines the field and the
\* configuration key is absent or holds "", [] or None, the result of
\* apply_profile holds the profile's value at that key.
C2_FillMissing ==
    Applied =>
        \A i \in DOMAIN mappings :
            ( /\ mappings[i][1] \in DOMAIN NamedProfile
              /\ ~Populated(call.base, mappings[i][2]) )
            => /\ mappings[i][2] \in DOMAIN ret.val
               /\ ret.val[mappings[i][2]] = NamedProfile[mappings[i][1]]

\* one call fills an absent key and a key that was present but empty
C2_Witness ==
    /\ Applied
    /\ \E i, j \in DOMAIN mappings :
           /\ mappings[i][2] \notin DOMAIN call.base
           /\ mappings[i][1] \in DOMAIN NamedProfile
           /\ Truthy(ret.val[mappings[i][2]])
           /\ mappings[j][2] \in DOMAIN call.base
           /\ ~Truthy(call.base[mappings[j][2]])
           /\ mappings[j][1] \in DOMAIN NamedProfile
           /\ Truthy(ret.val[mappings[j][2]])

\* C3: a successful apply_profile(c, p) returns _profile_name = p and
\* _profile_display_name = the profile's name (p when it has none), also when
\* c carried both keys from an earlier application.
C3_ProfileMetadata ==
    Applied =>
        /\ "_profile_name" \in DOMAIN ret.val
        /\ ret.val["_profile_name"] = Str(call.name)
        /\ "_profile_display_name" \in DOMAIN ret.val
        /\ ret.val["_profile_display_name"] =
               IF "name" \in DOMAIN NamedProfile THEN NamedProfile["name"]
               ELSE Str(call.name)

\* the configuration carried the metadata of another profile
C3_Witness ==
    /\ Applied
    /\ "_profile_name" \in DOMAIN call.base
    /\ call.base["_profile_name"] # Str(call.name)
    /\ "_profile_display_name" \in DOMAIN call.base
    /\ call.base["_profile_display_name"] # ret.val["_profile_display_name"]

LookupErrors == {"LookupError", "KeyError", "IndexError"}

\* every profile name known: the built-in keys and the keys added so far
KnownNames == DOMAIN PROFILES \cup {adds[i].name : i \in DOMAIN adds}

\* C4: get_profile and apply_profile with a name in neither table raise a
\* lookup error whose message contains the name and every known profile
\* name; nothing is returned and the configuration stays as it was.
C4_LookupFailure ==
    ( /\ call.op \in {"get_profile", "apply_profile"}
      /\ call.name \notin KnownNames )
    => /\ ~ret.ok
       /\ ret.exc \in LookupErrors
       /\ Contains(ret.val.v, call.name)
       /\ \A n \in KnownNames : Contains(ret.val.v, n)
       /\ call.op = "apply_profile" => config = call.base

\* an unknown name is applied after a custom profile was added
C4_Witness ==
    /\ call.op = "apply_profile"
    /\ call.name = nonexistent_profile
    /\ \E i \in DOMAIN adds : adds[i].name \notin DOMAIN PROFILES
    /\ ~ret.ok

\* ret is the profile passed to the add_profile call a (a display name may
\* have been added to it)
IsAdded(p, a) ==
    /\ DOMAIN a.profile \subseteq DOMAIN p
    /\ DOMAIN p \subseteq DOMAIN a.profile \cup {"name"}
    /\ \A f \in DOMAIN a.profile : p[f] = a.profile[f]

\* C5: get_profile(n) resolves n to the custom profile most recently added
\* under n if there is one, also when n is a built-in key, and to the
\* built-in profile otherwise; apply_profile resolves n the same way.
C5_CustomPrecedence ==
    LET under == AddsUnder(call.name) IN
    /\ call.op = "get_profile" =>
           IF under # <<>> THEN ret.ok /\ IsAdded(ret.val, Last(under))
           ELSE IF call.name \in DOMAIN PROFILES
                THEN ret.ok /\ ret.val = PROFILES[call.name]
                ELSE ~ret.ok
    /\ (Applied /\ "languages" \notin DOMAIN call.base) =>
           ret.val["languages"] =
               IF under # <<>> THEN Last(under).profile["languages"]
               ELSE PROFILES[call.name]["languages"]

\* a built-in key was given two different custom profiles and is looked up
C5_Witness ==
    /\ call.op = "get_profile"
    /\ call.name \in DOMAIN PROFILES
    /\ Len(AddsUnder(call.name)) >= 2
    /\ AddsUnder(call.name)[1].profile # Last(AddsUnder(call.name)).profile
    /\ ret.ok
    /\ ret.val # PROFILES[call.name]

----------------------------------------------------------------------------
(* Properties of derive_initial_tasks, checked under SpecTasks *)

Derived == call.op = "_derive_initial_tasks"

\* C6: for every configuration of the data model (initial_task and
\* success_criteria each absent, a string / a list of strings, or None),
\* derive_initial_tasks returns a list of length >= 1 whose first element is
\* the default task.
C6_DefaultTaskFirst ==
    Derived =>
        /\ ret.ok
        /\ ret.val.t = "list"
        /\ Len(ret.val.v) >= 1
        /\ ret.val.v[1] = DEFAULT_INITIAL_TASK

\* initial_task is absent or a str, success_criteria absent or a list
TextConfig(c) ==
    /\ Get(c, "initial_task", Str(<<>>)).t = "str"
    /\ Get(c, "success_criteria", List(<<>>)).t = "list"

Trimmed(ss) == [i \in DOMAIN ss |-> Strip(ss[i])]

ExpectedTasks(c) ==
    LET it == Strip(Get(c, "initial_task", Str(<<>>)).v)
        sc == Get(c, "success_criteria", List(<<>>)).v
    IN <<DEFAULT_INITIAL_TASK>>
           \o (IF it # <<>> THEN <<it>> ELSE <<>>)
           \o SelectSeq(Trimmed(sc), LAMBDA x : x # <<>>)

\* C7: the result is the default task, then the trimmed initial_task if it is
\* not blank, then the trimmed form of every success criterion that is not
\* blank, in the original order, nothing reordered or deduplicated.
C7_TaskList ==
    (Derived /\ TextConfig(call.base)) =>
        ret.ok /\ ret.val = List(ExpectedTasks(call.base))

\* an initial task and two criteria that need trimming and trim to the same
\* text, after a blank-free longer criterion
C7_Witness ==
    /\ Derived
    /\ ret.ok
    /\ "initial_task" \in DOMAIN call.base
    /\ call.base["initial_task"] = Str(<<"a", " ">>)
    /\ "success_criteria" \in DOMAIN call.base
    /\ call.base["success_criteria"] = List(<< <<"a", "a">>, <<" ", "a">> >>)
    /\ ret.val.v = <<DEFAULT_INITIAL_TASK, <<"a">>, <<"a", "a">>, <<"a">> >>

----------------------------------------------------------------------------
(* Properties of parse_goal_to_bullets, checked under SpecGoal *)

Parsed == call.op = "_parse_goal_to_bullets"

Bullets == ret.val.v

\* C8: an empty or otherwise falsy goal ("" or None) gives exactly
\* ["No goal specified"].
C8_EmptyGoal ==
    (Parsed /\ ~Truthy(goal)) => ret = Return(List(<<NoGoalSpecified>>))

\* the empty string was parsed
C8_Witness == Parsed /\ goal = Str(<<>>) /\ Bullets = <<NoGoalSpecified>>

SingleLine(g) == g.t = "str" /\ g.v # <<>> /\ \A i \in DOMAIN g.v : g.v[i] # NL

\* C9 as stated: a non-empty goal without a newline that does not begin with
\* '-' or '*' gives the one-element list of the trimmed goal.
C9_SingleLineAsStated ==
    (Parsed /\ SingleLine(goal) /\ ~StartsWithAny(goal.v, BulletChars)) =>
        ret = Return(List(<<Strip(goal.v)>>))

\* C9 amended: a non-empty goal without a newline whose trimmed form does not
\* begin with '-' or '*' gives the one-element list of the trimmed goal.
C9_SingleLine ==
    (Parsed /\ SingleLine(goal) /\ ~StartsWithAny(Strip(goal.v), BulletChars)) =>
        ret = Return(List(<<Strip(goal.v)>>))

\* a single-line goal with text and surrounding whitespace was parsed
C9_Witness ==
    /\ Parsed
    /\ SingleLine(goal)
    /\ ~StartsWithAny(Strip(goal.v), BulletChars)
    /\ Strip(goal.v) # <<>>
    /\ StartsWithAny(goal.v, Whitespace)
    /\ Bullets = <<Strip(goal.v)>>

\* C10 as stated: no bullet begins with '-' or '*', the fallback bullet
\* included.
C10_NoLeadingMarkerAsStated ==
    Parsed => \A i \in DOMAIN Bullets : ~StartsWithAny(Bullets[i], BulletChars)

\* the goal holds nothing but bullet characters and whitespace, and the
\* result is the whole trimmed goal
FallbackBullet ==
    /\ \A i \in DOMAIN goal.v : goal.v[i] \in BulletChars \cup Whitespace
    /\ Bullets = <<Strip(goal.v)>>

\* b comes from a line whose leading run of bullet characters is followed by
\* whitespace
AfterSpacedMarker(b) ==
    \E j \in DOMAIN Split(goal.v, NL) :
        LET rest == LStripChars(Strip(Split(goal.v, NL)[j]), BulletChars) IN
        StartsWithAny(rest, Whitespace) /\ Strip(rest) = b

\* C10 amended: no bullet begins with '-' or '*', except the fallback bullet
\* (the whole trimmed goal, when the goal holds only bullet characters and
\* whitespace) and a bullet from a line whose leading run of bullet
\* characters is followed by whitespace and another bullet character: only
\* the first run is stripped.
C10_NoLeadingMarker ==
    Parsed =>
        \A i \in DOMAIN Bullets :
            StartsWithAny(Bullets[i], BulletChars) =>
                FallbackBullet \/ AfterSpacedMarker(Bullets[i])

\* two lines, one led by a bullet character, give two bullets without a
\* leading bullet character
C10_Witness ==
    /\ Parsed
    /\ Truthy(goal)
    /\ Len(Split(goal.v, NL)) = 2
    /\ \E j \in DOMAIN Split(goal.v, NL) :
           StartsWithAny(Split(goal.v, NL)[j], BulletChars)
    /\ Len(Bullets) = 2
    /\ \A i \in DOMAIN Bullets : ~StartsWithAny(Bullets[i], BulletChars)

----------------------------------------------------------------------------
(***************************************************************************)
(* The template engine (geck_generator/core/templates.py).                 *)
(*                                                                         *)
(* A jinja2 template is kept in parsed form: a sequence of segments, each  *)
(* a record with the same fields.  The literal text of a built-in template *)
(* is kept from the source, a run of ordinary characters being one symbol  *)
(* and every line break a symbol of its own; long static passages are      *)
(* shortened to their headings.  The environment is built with             *)
(* trim_blocks and lstrip_blocks, so a line holding only a block tag       *)
(* leaves nothing behind, and the last line break of a template is dropped *)
(* (keep_trailing_newline is off).                                         *)
(***************************************************************************)

Digits == <<"0", "1", "2", "3", "4", "5", "6", "7", "8", "9">>

Digit(n) == Digits[n + 1]

\* the decimal digits of n, padded with 0 to width w
RECURSIVE Pad(_, _)
Pad(n, w) ==
    IF w <= 1 /\ n < 10 THEN <<Digit(n)>>
    ELSE Pad(n \div 10, w - 1) \o <<Digit(n % 10)>>

\* date.strftime("%Y-%m-%d")
strftime_Ymd(date) ==
    Pad(date.year, 4) \o <<"-">> \o Pad(date.month, 2) \o <<"-">>
        \o Pad(date.day, 2)

\* str(x), what {{ x }} prints for a defined value
StrOf(x) ==
    CASE x.t = "str" -> x.v
      [] x.t = "none" -> <<"None">>
      [] x.t = "list" -> ListRepr(x.v)

\* the elements a for loop or the join filter iterates over: the elements of
\* a list, the characters of a str
Items(x) ==
    IF x.t = "list" THEN x.v ELSE [i \in DOMAIN x.v |-> <<x.v[i]>>]

\* a test that only asks whether the name is defined
Test_defined_only(vs, n) == n \in DOMAIN vs /\ vs[n].t # "none"

\* the jinja2 truth test of a name: undefined and None are false, a str or
\* a list is true when it is not empty
Test(vs, n) == n \in DOMAIN vs /\ Truthy(vs[n])

\* {**a, **b}
Merge(a, b) ==
    [k \in DOMAIN a \cup DOMAIN b |-> IF k \in DOMAIN b THEN b[k] ELSE a[k]]

Seg(k, n, m, s, d, body, orelse) ==
    [k |-> k, n |-> n, m |-> m, s |-> s, d |-> d, body |-> body,
     orelse |-> orelse]

\* literal text
Lit(s) == Seg("lit", "", "", s, <<>>, <<>>, <<>>)
\* {{ n }}
Var(n) == Seg("var", n, "", <<>>, <<>>, <<>>, <<>>)
\* {{ n | default(d, true) }}
Default(n, d) == Seg("default", n, "", <<>>, d, <<>>, <<>>)
\* {% if n %}body{% else %}orelse{% endif %}
If(n, body, orelse) == Seg("if", n, "", <<>>, <<>>, body, orelse)
\* {% for x in n %}s{{ x }}d{% endfor %}
For(n, s, d) == Seg("for", n, "", s, d, <<>>, <<>>)
\* {{ n | join(s) if n else d }}
JoinOr(n, s, d) == Seg("join", n, "", s, d, <<>>, <<>>)
\* {% for p in n %}- [{{ 'x' if p in m else ' ' }}] {{ p }}{% endfor %}
Checklist(n, m) == Seg("checklist", n, m, <<>>, <<>>, <<>>, <<>>)

\* the body of a for loop, once per item
RECURSIVE ForEach(_, _, _)
ForEach(items, pre, post) ==
    IF items = <<>> THEN <<>>
    ELSE pre \o Head(items) \o post \o ForEach(Tail(items), pre, post)

\* p in target, for a list target
InList(p, target) == \E i \in DOMAIN target : target[i] = p

RECURSIVE CheckEach(_, _)
CheckEach(items, target) ==
    IF items = <<>> THEN <<>>
    ELSE <<"- [">> \o (IF InList(Head(items), target) THEN <<"x">> ELSE <<" ">>)
             \o <<"] ">> \o Head(items) \o <<NL>> \o CheckEach(Tail(items), target)

\* A for loop over None, or a membership test in None, raises TypeError.
RECURSIVE Fails(_, _)
Fails(segs, vs) ==
    IF segs = <<>> THEN FALSE
    ELSE LET seg == Head(segs) IN
         \/ seg.k = "for" /\ seg.n \in DOMAIN vs /\ vs[seg.n].t = "none"
         \/ seg.k = "checklist" /\ seg.n \in DOMAIN vs
                /\ Items(vs[seg.n]) # <<>>
                /\ seg.m \in DOMAIN vs /\ vs[seg.m].t = "none"
         \/ seg.k = "if" /\ Fails(IF Test(vs, seg.n) THEN seg.body ELSE seg.orelse, vs)
         \/ Fails(Tail(segs), vs)

RECURSIVE RenderSegs(_, _)
RenderSegs(segs, vs) ==
    IF segs = <<>> THEN <<>>
    ELSE LET seg == Head(segs)
             text ==
                 CASE seg.k = "lit" -> seg.s
                   [] seg.k = "var" ->
                        IF seg.n \in DOMAIN vs THEN StrOf(vs[seg.n]) ELSE <<>>
                   [] seg.k = "default" ->
                        IF Test(vs, seg.n) THEN StrOf(vs[seg.n]) ELSE seg.d
                   [] seg.k = "if" ->
                        RenderSegs(IF Test(vs, seg.n) THEN seg.body
                                   ELSE seg.orelse, vs)
                   [] seg.k = "for" ->
                        IF seg.n \in DOMAIN vs
                        THEN ForEach(Items(vs[seg.n]), seg.s, seg.d)
                        ELSE <<>>
                   [] seg.k = "join" ->
                        IF Test(vs, seg.n)
                        THEN Join(Items(vs[seg.n]), seg.s)
                        ELSE seg.d
                   [] seg.k = "checklist" ->
                        IF seg.n \in DOMAIN vs
                        THEN CheckEach(Items(vs[seg.n]),
                                       IF seg.m \in DOMAIN vs
                                       THEN Items(vs[seg.m]) ELSE <<>>)
                        ELSE <<>>
         IN text \o RenderSegs(Tail(segs), vs)

\* template.render(**vs)
TemplateRender(segs, vs) ==
    IF Fails(segs, vs)
    THEN Raise("TypeError", <<"'NoneType' object is not iterable">>)
    ELSE Return(Str(RenderSegs(segs, vs)))

----------------------------------------------------------------------------
(* The built-in templates *)

LLM_INIT_TEMPLATE ==
    << Lit(<<"# Project: ">>), Var("project_name"), Lit(<<NL, NL>>),
       Lit(<<"**Repository:** ">>),
       Default("repo_url", <<"Not specified">>), Lit(<<NL>>),
       Lit(<<"**Local Path:** ">>),
       Default("local_path", <<"Not specified">>), Lit(<<NL>>),
       If("git_branch",
          <<Lit(<<"**Branch:** ">>), Var("git_branch"), Lit(<<NL>>)>>, <<>>),
       Lit(<<"**Created:** ">>), Var("created_date"), Lit(<<NL, NL>>),
       Lit(<<"## Goal", NL, NL>>), Var("goal"), Lit(<<NL, NL>>),
       Lit(<<"## Success Criteria", NL, NL>>),
       For("success_criteria", <<"- [ ] ">>, <<NL>>),
       Lit(<<NL, "## Constraints", NL, NL>>),
       Lit(<<"- **Languages:** ">>),
       Default("languages", <<"Not specified">>), Lit(<<NL>>),
       Lit(<<"- **Frameworks:** ">>),
       JoinOr("frameworks", <<",", " ">>, <<"Not specified">>), Lit(<<NL>>),
       Lit(<<"- **Must use:** ">>),
       Default("must_use", <<"None specified">>), Lit(<<NL>>),
       Lit(<<"- **Must avoid:** ">>),
       Default("must_avoid", <<"None specified">>), Lit(<<NL>>),
       Lit(<<"- **Target platforms:** ">>),
       JoinOr("platforms", <<",", " ">>, <<"Not specified">>), Lit(<<NL, NL>>),
       Lit(<<"## Context", NL, NL>>),
       Default("context", <<"No additional context provided.">>),
       Lit(<<NL, NL>>),
       Lit(<<"## Initial Task", NL, NL>>),
       Default("initial_task",
               <<"Begin implementation based on the goal and success criteria above.">>) >>

\* static text, no variables
GECK_INST_TEMPLATE ==
    << Lit(<<"# GECK Agent Instructions", NL,
             "## Quick Reference for AI Assistants">>) >>

ENV_TEMPLATE ==
    << Lit(<<"# Environment - ">>), Var("project_name"), Lit(<<NL, NL>>),
       Lit(<<"**Captured:** ">>), Var("timestamp"), Lit(<<NL>>),
       Lit(<<"**Last Updated:** ">>), Var("timestamp"), Lit(<<NL, NL>>),
       Lit(<<"## Development Machine", NL, NL>>),
       Lit(<<"- **OS:** ">>), Var("os_info"), Lit(<<NL>>),
       Lit(<<"- **Shell:** ">>), Var("shell_info"), Lit(<<NL, NL>>),
       Lit(<<"## Runtime Versions", NL, NL>>),
       For("runtime_versions", <<"| ">>, <<" |", NL>>),
       Lit(<<NL, "## Target Platforms", NL, NL>>),
       Checklist("all_platforms", "target_platforms") >>

TASKS_TEMPLATE ==
    << Lit(<<"# Tasks - ">>), Var("project_name"), Lit(<<NL, NL>>),
       Lit(<<"**Last Updated:** ">>), Var("timestamp"), Lit(<<NL, NL>>),
       Lit(<<"## Current Sprint", NL, NL>>),
       If("initial_tasks",
          <<For("initial_tasks", <<"- [ ] ">>, <<NL>>)>>,
          <<Lit(<<"- [ ] Review project goals and begin implementation", NL>>)>>),
       Lit(<<NL, "## Backlog", NL, NL, "(empty)">>) >>

LOG_TEMPLATE ==
    << Lit(<<"# Session Log - ">>), Var("project_name"), Lit(<<NL, NL>>),
       Lit(<<"## Entry #0 - ">>), Var("timestamp"), Lit(<<NL, NL>>),
       Lit(<<"### Understood Goals", NL>>),
       For("understood_goals", <<"- ">>, <<NL>>),
       Lit(<<NL, "### Initial Tasks", NL>>),
       For("initial_tasks", <<"- ">>, <<NL>>),
       Lit(<<NL, "### Checkpoint", NL, "---">>) >>

REPOR_TEMPLATE ==
    << Lit(<<"# GECK Repor", NL, NL>>),
       Lit(<<"- **Project Name:** ">>), Var("project_name"), Lit(<<NL>>),
       Lit(<<"- **Working Directory:** ">>), Var("working_directory"),
       Lit(<<NL>>),
       Lit(<<"- **GECK Folder:** ">>), Var("geck_folder"), Lit(<<NL>>),
       If("project_git_repo",
          <<Lit(<<"- **Project Git Repo:** ">>), Var("project_git_repo"),
            Lit(<<NL>>)>>, <<>>),
       Lit(<<NL, "## Repositories", NL, NL>>),
       For("repositories", <<"- ">>, <<NL>>),
       Lit(<<NL, "## Exploration Goals", NL, NL>>),
       For("exploration_goals", <<"- ">>, <<NL>>),
       Lit(<<NL, "# Repor Findings - ">>), Var("project_name") >>

\* TemplateEngine.TEMPLATES
TemplateNames == {"llm_init", "geck_inst", "env", "tasks", "log", "repor"}

TEMPLATES ==
    [n \in TemplateNames |->
        CASE n = "llm_init" -> LLM_INIT_TEMPLATE
          [] n = "geck_inst" -> GECK_INST_TEMPLATE
          [] n = "env" -> ENV_TEMPLATE
          [] n = "tasks" -> TASKS_TEMPLATE
          [] n = "log" -> LOG_TEMPLATE
          [] n = "repor" -> REPOR_TEMPLATE]

----------------------------------------------------------------------------
(* TemplateEngine *)

\* the defaults of render and render_string
defaults(date) == [k \in {"created_date"} |-> Str(strftime_Ymd(date))]

\* DictLoader.get_source behind env.get_template: the cached template if
\* the environment has loaded the name before, the source otherwise
get_template(cached, template_name) ==
    IF template_name \in DOMAIN cached THEN Return(cached[template_name])
    ELSE IF template_name \in DOMAIN TEMPLATES
    THEN Return(TEMPLATES[template_name])
    ELSE Raise("TemplateNotFound", <<template_name>>)

\* what the lookup leaves in the cache of the environment
get_template_cache(cached, template_name) ==
    IF template_name \in DOMAIN TEMPLATES
    THEN Put(cached, template_name, get_template(cached, template_name).val)
    ELSE cached

render_defaults_win(ct, cached, template_name, variables, date) ==
    LET merged_vars == Merge(variables, defaults(date))
        found == IF template_name \in DOMAIN ct THEN Return(ct[template_name])
                 ELSE get_template(cached, template_name)
    IN IF found.ok THEN TemplateRender(found.val, merged_vars) ELSE found

render_cache_first(ct, cached, template_name, variables, date) ==
    LET merged_vars == Merge(defaults(date), variables)
        found == IF template_name \in DOMAIN cached
                 THEN Return(cached[template_name])
                 ELSE IF template_name \in DOMAIN ct
                 THEN Return(ct[template_name])
                 ELSE get_template(cached, template_name)
    IN IF found.ok THEN TemplateRender(found.val, merged_vars) ELSE found

\* TemplateEngine.render(template_name, variables), with ct the custom
\* templates, cached the templates the environment holds, date the clock
render(ct, cached, template_name, variables, date) ==
    LET merged_vars == Merge(defaults(date), variables)
        found == IF template_name \in DOMAIN ct THEN Return(ct[template_name])
                 ELSE get_template(cached, template_name)
    IN IF found.ok THEN TemplateRender(found.val, merged_vars) ELSE found

\* the cache of the environment after render
render_cache(ct, cached, template_name) ==
    IF template_name \in DOMAIN ct THEN cached
    ELSE get_template_cache(cached, template_name)

\* TemplateEngine.render_string(template_string, variables)
render_string(template_string, variables, date) ==
    TemplateRender(template_string, Merge(defaults(date), variables))

\* TemplateEngine.add_template(name, template_string)
add_template(ct, name, template_string) == Put(ct, name, template_string)

----------------------------------------------------------------------------
(* Files: Path.write_text and Path.read_text in text mode *)

CR == "\r"

\* what open(path, "w") stores: every line break becomes os.linesep
write_text(text, sep) ==
    LET width == Len(sep)
        spread == [j \in 1..(Len(text) * width) |->
                      LET i == ((j - 1) \div width) + 1
                          r == ((j - 1) % width) + 1
                      IN [c |-> IF text[i] = NL THEN sep[r] ELSE text[i],
                          kept |-> text[i] = NL \/ r = 1]]
        IsKept(m) == m.kept
        stored == SelectSeq(spread, IsKept)
    IN [i \in DOMAIN stored |-> stored[i].c]

\* the stored text as it is, the way a binary read decodes it
read_text_binary(stored) == stored

\* what open(path).read() returns: universal newlines, "\r\n" and "\r"
\* both read as a line break
read_text(stored) ==
    LET marked == [i \in DOMAIN stored |->
                      [c |-> IF stored[i] = CR THEN NL ELSE stored[i],
                       lf_of_crlf |-> stored[i] = NL /\ i > 1
                                         /\ stored[i - 1] = CR]]
        IsKept(m) == ~m.lf_of_crlf
        kept == SelectSeq(marked, IsKept)
    IN [i \in DOMAIN kept |-> kept[i].c]

\* a directory on the disk
Dir == [t |-> "dir", v |-> <<>>]

\* path / name
Child(path, name) == path \o <<"/", name>>

\* path.parent
Parent(path) == SubSeq(path, 1, Len(path) - 2)

\* path.mkdir(parents=True, exist_ok=True): the path and the ancestors it
\* lacks become directories
mkdir(files, path) ==
    LET made == {SubSeq(path, 1, k) : k \in {j \in DOMAIN path : j % 2 = 1}} IN
    [p \in DOMAIN files \cup made |->
        IF p \in DOMAIN files THEN files[p] ELSE Dir]

\* the text added to what the file holds
write_file_appends(files, path, text, sep) ==
    Put(files, path,
        Str((IF path \in DOMAIN files /\ files[path].t = "str"
             THEN files[path].v ELSE <<>>) \o write_text(text, sep)))

\* path.write_text(text, encoding="utf-8")
write_file(files, path, text, sep) == Put(files, path, Str(write_text(text, sep)))

\* path.name
PathName(path) == Last(path)

----------------------------------------------------------------------------
(* Exploration profiles and generate_repor_instructions *)

feature_discovery == <<"feature_discovery">>
security_audit == <<"security_audit">>

REPOR_PROFILES_keys == <<feature_discovery, security_audit>>

REPOR_PROFILES ==
    [n \in {feature_discovery, security_audit} |->
        IF n = feature_discovery THEN
            [name |-> Str(<<"Feature Discovery">>),
             description |-> Str(<<"Find reusable components and patterns">>),
             goals |-> List(<< <<"Identify reusable utility functions">>,
                               <<"Find well-documented APIs">>,
                               <<"Locate configurable components">>,
                               <<"Discover extensible patterns">> >>)]
        ELSE
            [name |-> Str(<<"Security Audit">>),
             description |-> Str(<<"Look for security patterns and practices">>),
             goals |-> List(<< <<"Find authentication implementations">>,
                               <<"Locate input validation patterns">>,
                               <<"Identify secure configuration practices">>,
                               <<"Discover access control mechanisms">> >>)]]

\* ReporProfileManager.get_profile(name)
repor_get_profile(name) ==
    IF name \in DOMAIN REPOR_PROFILES THEN Return(REPOR_PROFILES[name])
    ELSE Raise("KeyError",
               <<"Repor profile '">> \o name \o <<"' not found. Available: ">>
                   \o ListRepr(REPOR_PROFILES_keys))

\* ReporProfileManager.get_goals_for_profile(profile_name)
get_goals_for_profile(profile_name) ==
    IF profile_name = Str(<<"none">>) \/ ~Truthy(profile_name)
    THEN Return(List(<<>>))
    ELSE LET profile == repor_get_profile(profile_name.v) IN
         IF profile.ok THEN Return(Get(profile.val, "goals", List(<<>>)))
         ELSE profile

RECURSIVE unique_goals_keep_all(_, _, _)
unique_goals_keep_all(all_goals, seen, unique_goals) ==
    IF all_goals = <<>> THEN unique_goals
    ELSE unique_goals_keep_all(Tail(all_goals), seen \cup {Head(all_goals)},
                               Append(unique_goals, Head(all_goals)))

\* the loop "for goal in all_goals: if goal not in seen: ..."
RECURSIVE unique_goals(_, _, _)
unique_goals(all_goals, seen, unique_goals_) ==
    IF all_goals = <<>> THEN unique_goals_
    ELSE LET goal_ == Head(all_goals) IN
         IF goal_ \notin seen
         THEN unique_goals(Tail(all_goals), seen \cup {goal_},
                           Append(unique_goals_, goal_))
         ELSE unique_goals(Tail(all_goals), seen, unique_goals_)

GeneralExploration == <<"General code exploration and analysis">>

\* the remote of the working directory: the first "url = " line of
\* .git/config, None when there is no such file or no such line
project_git_repo(files, working_directory) ==
    LET git_config == Child(Child(working_directory, ".git"), "config") IN
    IF git_config \notin DOMAIN files THEN None
    ELSE LET lines == Split(read_text(files[git_config].v), NL)
             stripped == [i \in DOMAIN lines |-> Strip(lines[i])]
             urls == {i \in DOMAIN lines : StartsWithAny(stripped[i], {"url = "})}
         IN IF urls = {} THEN None
            ELSE LET i == CHOOSE j \in urls : \A m \in urls : j <= m
                 IN Str(Strip(Tail(stripped[i])))

template_vars_no_placeholder(files, a) ==
    LET profile_goals ==
            IF Truthy(a.profile_name) /\ a.profile_name # Str(<<"none">>)
            THEN get_goals_for_profile(a.profile_name)
            ELSE Return(List(<<>>))
    IN IF ~profile_goals.ok THEN profile_goals
       ELSE LET all_goals == profile_goals.val.v \o a.exploration_goals.v
                unique == unique_goals(all_goals, {}, <<>>)
            IN Return(
                 [k \in {"project_name", "working_directory", "geck_folder",
                         "project_git_repo", "repositories", "exploration_goals"} |->
                     CASE k = "project_name" ->
                              Str(<<PathName(a.working_directory)>>)
                       [] k = "working_directory" -> Str(a.working_directory)
                       [] k = "geck_folder" ->
                              Str(Child(a.working_directory, "GECK"))
                       [] k = "project_git_repo" ->
                              project_git_repo(files, a.working_directory)
                       [] k = "repositories" -> a.repositories
                       [] k = "exploration_goals" -> List(unique)])

\* generate_repor_instructions up to the rendering: the mapping handed to
\* the template, with a the arguments of the call
template_vars(files, a) ==
    LET profile_goals ==
            IF Truthy(a.profile_name) /\ a.profile_name # Str(<<"none">>)
            THEN get_goals_for_profile(a.profile_name)
            ELSE Return(List(<<>>))
    IN IF ~profile_goals.ok THEN profile_goals
       ELSE LET all_goals == profile_goals.val.v \o a.exploration_goals.v
                unique == unique_goals(all_goals, {}, <<>>)
            IN Return(
                 [k \in {"project_name", "working_directory", "geck_folder",
                         "project_git_repo", "repositories", "exploration_goals"} |->
                     CASE k = "project_name" ->
                              Str(<<PathName(a.working_directory)>>)
                       [] k = "working_directory" -> Str(a.working_directory)
                       [] k = "geck_folder" ->
                              Str(Child(a.working_directory, "GECK"))
                       [] k = "project_git_repo" ->
                              project_git_repo(files, a.working_directory)
                       [] k = "repositories" -> a.repositories
                       [] k = "exploration_goals" ->
                              IF unique # <<>> THEN List(unique)
                              ELSE List(<<GeneralExploration>>)])

\* the text generate_repor_instructions returns
generate_repor_instructions(ct, cached, files, a, date) ==
    LET tv == template_vars(files, a) IN
    IF tv.ok THEN render(ct, cached, "repor", tv.val, date) ELSE tv

----------------------------------------------------------------------------
(* generate_repor_instructions applied to every combination of profile     *)
(* name and caller goals                                                    *)

WorkDir == <<"/work", "/", "proj">>

ReporGoalStrings ==
    {<<"Identify reusable utility functions">>, <<"Find auth flows">>, <<>>}

ReporProfileNames ==
    {None, Str(<<>>), Str(<<"none">>), Str(feature_discovery),
     Str(security_audit), Str(<<"unknown">>)}

ReporOutputPaths == {None, Str(<<"/out", "/", "repor.md">>)}

ReporArgs ==
    { [working_directory |-> WorkDir,
       repositories |-> List(<< <<"https://example.com/a.git">> >>),
       exploration_goals |-> List(g),
       profile_name |-> pn,
       output_path |-> op] :
        g \in SeqUpTo(ReporGoalStrings, MaxReporGoals),
        pn \in ReporProfileNames, op \in ReporOutputPaths }

\* the working directory, with and without a git remote
WorkDirDisk == mkdir(EmptyDict, WorkDir)
ClonedDisk ==
    write_file(mkdir(WorkDirDisk, Child(WorkDir, ".git")),
               Child(Child(WorkDir, ".git"), "config"),
               <<"[remote]", NL, " ", "url = ", "https://example.com/p.git", NL>>,
               <<NL>>)

InitRepor ==
    /\ custom_profiles = <<>>
    /\ config = EmptyDict
    /\ config0 = config
    /\ goal = None
    /\ call = NoCall
    /\ ret = Return(None)
    /\ adds = <<>>
    /\ args \in ReporArgs
    /\ custom_templates = EmptyDict
    /\ loaded = EmptyDict
    /\ fs \in {WorkDirDisk, ClonedDisk}
    /\ today = [year |-> 2026, month |-> 1, day |-> 5]
    /\ builtin_profiles = PROFILES
    /\ linesep = <<NL>>

\* call.base records the mapping handed to the template
GenerateReporInstructions ==
    /\ call.op = "none"
    /\ LET tv == template_vars(fs, args)
           r == generate_repor_instructions(custom_templates, loaded, fs,
                                            args, today)
           path == args.output_path.v
       IN /\ ret' = r
          /\ call' = [op |-> "generate_repor_instructions", name |-> <<>>,
                      base |-> IF tv.ok THEN tv.val ELSE EmptyDict]
          /\ loaded' = IF tv.ok
                       THEN render_cache(custom_templates, loaded, "repor")
                       ELSE loaded
          /\ fs' = IF r.ok /\ Truthy(args.output_path)
                   THEN write_file(mkdir(fs, Parent(path)), path, r.val.v,
                                   linesep)
                   ELSE fs
    /\ UNCHANGED builtin_profiles
    /\ UNCHANGED <<custom_profiles, config, goal, config0, adds, args,
                   custom_templates, today, linesep>>

NextRepor == GenerateReporInstructions

SpecRepor == InitRepor /\ [][NextRepor]_vars

----------------------------------------------------------------------------
(* C11, C12: the exploration goals handed to the repor template *)

ReporDone == call.op = "generate_repor_instructions" /\ ret.ok

\* the list handed to the template
HandedGoals == call.base["exploration_goals"].v

\* the goals of the named exploration profile, none when the name is unset
\* or the sentinel
ProfileGoals ==
    IF ~Truthy(args.profile_name) \/ args.profile_name = Str(<<"none">>)
    THEN <<>>
    ELSE REPOR_PROFILES[args.profile_name.v].goals.v

CombinedGoals == ProfileGoals \o args.exploration_goals.v

FirstIndex(s, x) == CHOOSE i \in DOMAIN s : s[i] = x /\ \A j \in 1..(i - 1) : s[j] # x

\* C11: when the combination of profile goals and caller goals is not empty,
\* the list handed to the template has no duplicates, holds exactly the
\* strings of the combination (profile goals first), and orders them by
\* their first occurrence in it.
C11_DedupFirstOccurrence ==
    (ReporDone /\ CombinedGoals # <<>>) =>
        /\ \A i, j \in DOMAIN HandedGoals :
               i # j => HandedGoals[i] # HandedGoals[j]
        /\ {HandedGoals[i] : i \in DOMAIN HandedGoals}
               = {CombinedGoals[i] : i \in DOMAIN CombinedGoals}
        /\ \A i, j \in DOMAIN HandedGoals :
               i < j => FirstIndex(CombinedGoals, HandedGoals[i])
                            < FirstIndex(CombinedGoals, HandedGoals[j])

\* a profile goal repeated by the caller, after a goal of the caller's own
C11_Witness ==
    /\ ReporDone
    /\ args.profile_name = Str(feature_discovery)
    /\ args.exploration_goals.v
           = << <<"Find auth flows">>, <<"Identify reusable utility functions">> >>
    /\ Len(HandedGoals) = 5
    /\ HandedGoals[5] = <<"Find auth flows">>

\* C12: the list handed to the template is never empty, the placeholder
\* goal stands in exactly when the combination is empty, and the rendered
\* section lists at least one goal.
C12_PlaceholderWhenEmpty ==
    ReporDone =>
        /\ HandedGoals # <<>>
        /\ (CombinedGoals = <<>>) <=> (HandedGoals = <<GeneralExploration>>)
        /\ (CombinedGoals # <<>>) =>
               \A i \in DOMAIN HandedGoals : HandedGoals[i] # GeneralExploration
        /\ Contains(ret.val.v, <<"## Exploration Goals", NL, NL, "- ">>)

\* no profile and no caller goal: the placeholder is the only goal
C12_Witness ==
    /\ ReporDone
    /\ args.profile_name = Str(<<"none">>)
    /\ args.exploration_goals.v = <<>>
    /\ HandedGoals = <<GeneralExploration>>
    /\ Contains(ret.val.v, <<"- ", "General code exploration and analysis", NL>>)

----------------------------------------------------------------------------
(* GECKGenerator: generate, generate_to_file, validate_config *)

\* "profile" in config and config["profile"]
ProfileSet(cfg) == "profile" \in DOMAIN cfg /\ Truthy(cfg["profile"])

SetDefault_overwrite(d, k, v) == Put(d, k, v)

\* d.setdefault(k, v)
SetDefault(d, k, v) == IF k \in DOMAIN d THEN d ELSE Put(d, k, v)

UntitledProject == <<"Untitled Project">>
NoGoalSpecifiedText == <<"No goal specified.">>

\* the four config.setdefault calls
SetDefaults(cfg) ==
    SetDefault(
        SetDefault(
            SetDefault(
                SetDefault(cfg, "project_name", Str(UntitledProject)),
                "goal", Str(NoGoalSpecifiedText)),
            "success_criteria", List(<<>>)),
        "platforms", List(<<>>))

\* the local variable config of generate when the template is rendered:
\* a profiled copy when a profile is set, the caller's mapping otherwise,
\* with the defaults set
prepared_config(cp, cfg) ==
    LET merged == IF ProfileSet(cfg)
                  THEN apply_profile(cp, cfg, cfg["profile"].v)
                  ELSE Return(cfg)
    IN IF merged.ok THEN Return(SetDefaults(merged.val)) ELSE merged

\* the profiled, defaulted mapping left in the caller's hands
caller_config_prepared(cfg) ==
    LET merged == IF ProfileSet(cfg)
                  THEN apply_profile(<<>>, cfg, cfg["profile"].v)
                  ELSE Return(cfg)
    IN IF merged.ok THEN SetDefaults(merged.val) ELSE cfg

\* the caller's mapping after generate: apply_profile works on a copy and a
\* failed lookup happens before the defaults, so the caller's mapping
\* receives the defaults exactly when no profile is set
caller_config(cfg) == IF ProfileSet(cfg) THEN cfg ELSE SetDefaults(cfg)

generate_render_first(cp, ct, cached, cfg, date) ==
    LET merged == IF ProfileSet(cfg)
                  THEN apply_profile(cp, cfg, cfg["profile"].v)
                  ELSE Return(cfg)
    IN IF merged.ok THEN render(ct, cached, "llm_init", merged.val, date)
       ELSE merged

\* GECKGenerator.generate(config): the text returned
generate(cp, ct, cached, cfg, date) ==
    LET prepared == prepared_config(cp, cfg) IN
    IF prepared.ok THEN render(ct, cached, "llm_init", prepared.val, date)
    ELSE prepared

\* the cache of the environment after generate
generate_cache(cp, ct, cached, cfg) ==
    IF prepared_config(cp, cfg).ok THEN render_cache(ct, cached, "llm_init")
    ELSE cached

\* GECKGenerator.generate_to_file(config, output_path): the disk afterwards
generate_to_file(cp, ct, cached, files, cfg, output_path, date, sep) ==
    LET made == mkdir(files, Parent(output_path))
        content == generate(cp, ct, cached, cfg, date)
    IN IF content.ok THEN write_file(made, output_path, content.val.v, sep)
       ELSE made

\* str(e) of a KeyError: the repr of its message
KeyErrorStr(msg) == <<"\"">> \o msg \o <<"\"">>

\* the profile looked up among the built-in profiles only
validate_config_builtin_only(cp, cfg) ==
    LET e1 == IF ~Truthy(Get(cfg, "project_name", None))
              THEN << <<"Project name is required">> >> ELSE <<>>
        e2 == IF ~Truthy(Get(cfg, "goal", None))
              THEN << <<"Project goal is required">> >> ELSE <<>>
        e3 == IF Truthy(Get(cfg, "profile", None))
              THEN LET got == get_profile(<<>>, cfg["profile"].v) IN
                   IF got.ok THEN <<>> ELSE <<KeyErrorStr(got.val.v)>>
              ELSE <<>>
        e4 == IF "success_criteria" \in DOMAIN cfg
                  /\ cfg["success_criteria"].t # "list"
              THEN << <<"Success criteria must be a list">> >> ELSE <<>>
        e5 == IF "platforms" \in DOMAIN cfg /\ cfg["platforms"].t # "list"
              THEN << <<"Platforms must be a list">> >> ELSE <<>>
    IN Return(List(e1 \o e2 \o e3 \o e4 \o e5))

validate_config_first_error(cp, cfg) ==
    LET e1 == IF ~Truthy(Get(cfg, "project_name", None))
              THEN << <<"Project name is required">> >> ELSE <<>>
        e2 == IF ~Truthy(Get(cfg, "goal", None))
              THEN << <<"Project goal is required">> >> ELSE <<>>
        e3 == IF Truthy(Get(cfg, "profile", None))
              THEN LET got == get_profile(cp, cfg["profile"].v) IN
                   IF got.ok THEN <<>> ELSE <<KeyErrorStr(got.val.v)>>
              ELSE <<>>
        e4 == IF "success_criteria" \in DOMAIN cfg
                  /\ cfg["success_criteria"].t # "list"
              THEN << <<"Success criteria must be a list">> >> ELSE <<>>
        e5 == IF "platforms" \in DOMAIN cfg /\ cfg["platforms"].t # "list"
              THEN << <<"Platforms must be a list">> >> ELSE <<>>
        errors == e1 \o e2 \o e3 \o e4 \o e5
    IN Return(List(IF errors = <<>> THEN <<>> ELSE <<Head(errors)>>))

\* GECKGenerator.validate_config(config)
validate_config(cp, cfg) ==
    LET e1 == IF ~Truthy(Get(cfg, "project_name", None))
              THEN << <<"Project name is required">> >> ELSE <<>>
        e2 == IF ~Truthy(Get(cfg, "goal", None))
              THEN << <<"Project goal is required">> >> ELSE <<>>
        e3 == IF Truthy(Get(cfg, "profile", None))
              THEN LET got == get_profile(cp, cfg["profile"].v) IN
                   IF got.ok THEN <<>> ELSE <<KeyErrorStr(got.val.v)>>
              ELSE <<>>
        e4 == IF "success_criteria" \in DOMAIN cfg
                  /\ cfg["success_criteria"].t # "list"
              THEN << <<"Success criteria must be a list">> >> ELSE <<>>
        e5 == IF "platforms" \in DOMAIN cfg /\ cfg["platforms"].t # "list"
              THEN << <<"Platforms must be a list">> >> ELSE <<>>
    IN Return(List(e1 \o e2 \o e3 \o e4 \o e5))

----------------------------------------------------------------------------
(* generate and generate_to_file as a state machine: the caller keeps one   *)
(* configuration object and calls the generator on it again and again       *)

\* d with k set to v, the key left out when v is Absent
WithKey(d, k, v) == IF v = Absent THEN d ELSE Put(d, k, v)

GenConfigs ==
    { WithKey(WithKey(WithKey(WithKey(WithKey(EmptyDict,
          "project_name", pn), "goal", g), "success_criteria", sc),
          "platforms", pl), "profile", pr) :
        pn \in {Absent, Str(<<"Test">>)},
        g \in {Absent, Str(<<"Build", NL, "it">>), Str(<<"Port", CR, NL, "it">>)},
        sc \in {Absent, None, List(<<>>), List(<< <<"Mine">> >>)},
        pl \in {Absent, List(<< <<"BSD">> >>)},
        pr \in {Absent, None, Str(web_app), Str(library),
                Str(nonexistent_profile)} }

Dates ==
    {[year |-> 2026, month |-> 1, day |-> 5],
     [year |-> 2026, month |-> 12, day |-> 31]}

\* os.linesep on POSIX and on Windows
LineSeps == {<<NL>>, <<CR, NL>>}

OutputPaths == {<<"/out", "/", "sub", "/", "LLM_init.md">>}

InitGen ==
    /\ custom_profiles = <<>>
    /\ config \in GenConfigs
    /\ config0 = config
    /\ goal = None
    /\ call = NoCall
    /\ ret = Return(None)
    /\ adds = <<>>
    /\ args = EmptyDict
    /\ custom_templates = EmptyDict
    /\ loaded = EmptyDict
    /\ fs = EmptyDict
    /\ today \in Dates
    /\ builtin_profiles = PROFILES
    /\ linesep \in LineSeps

\* text = generator.generate(config); args keeps the mapping as it was
\* passed, call.base the mapping handed to the template
Generate ==
    LET prepared == prepared_config(custom_profiles, config) IN
    /\ ret' = generate(custom_profiles, custom_templates, loaded, config, today)
    /\ call' = [op |-> "generate", name |-> <<>>,
                base |-> IF prepared.ok THEN prepared.val ELSE EmptyDict]
    /\ args' = [c \in {"config"} |-> config]
    /\ config' = caller_config(config)
    /\ loaded' = generate_cache(custom_profiles, custom_templates, loaded, config)
    /\ UNCHANGED builtin_profiles
    /\ UNCHANGED <<custom_profiles, goal, config0, adds, custom_templates, fs,
                   today, linesep>>

\* generator.generate_to_file(config, output_path)
GenerateToFile ==
    \E output_path \in OutputPaths :
        LET content == generate(custom_profiles, custom_templates, loaded,
                                config, today)
        IN /\ ret' = IF content.ok THEN Return(Str(output_path)) ELSE content
           /\ call' = [op |-> "generate_to_file", name |-> output_path,
                       base |-> EmptyDict]
           /\ args' = [c \in {"config"} |-> config]
           /\ fs' = generate_to_file(custom_profiles, custom_templates, loaded,
                                     fs, config, output_path, today, linesep)
           /\ config' = caller_config(config)
           /\ loaded' = generate_cache(custom_profiles, custom_templates,
                                       loaded, config)
           /\ UNCHANGED builtin_profiles
           /\ UNCHANGED <<custom_profiles, goal, config0, adds,
                          custom_templates, today, linesep>>

NextGen == Generate \/ GenerateToFile

SpecGen == InitGen /\ [][NextGen]_vars

----------------------------------------------------------------------------
(* C13, C15, C20: generate and generate_to_file *)

\* the configuration as the last call received it
Passed == args["config"]

\* what generate would return if it were called now, on the configuration
\* object as the last call left it
GenerateAgain ==
    generate(custom_profiles, custom_templates, loaded, config, today)

Wrote == call.op = "generate_to_file" /\ ret.ok

\* C13 as stated: after generate_to_file(c, path), reading path gives
\* exactly the text a following generate(c) returns, and path was returned.
C13_RoundTripAsStated ==
    Wrote =>
        /\ GenerateAgain.ok
        /\ read_text(fs[call.name].v) = GenerateAgain.val.v
        /\ ret.val = Str(call.name)

HasCR(text) == \E i \in DOMAIN text : text[i] = CR

\* C13: when the generated text holds no carriage return, reading path
\* after generate_to_file(c, path) gives exactly the text a following
\* generate(c) returns, on either platform, and path was returned.
C13_RoundTrip ==
    (Wrote /\ GenerateAgain.ok /\ ~HasCR(GenerateAgain.val.v)) =>
        /\ read_text(fs[call.name].v) = GenerateAgain.val.v
        /\ ret.val = Str(call.name)

\* a file written on Windows from a configuration that received defaults
C13_Witness ==
    /\ Wrote
    /\ linesep = <<CR, NL>>
    /\ config # Passed
    /\ ~HasCR(GenerateAgain.val.v)
    /\ Contains(read_text(fs[call.name].v), <<"# Project: ", "Untitled Project", NL>>)
    /\ Contains(fs[call.name].v, <<"Untitled Project", CR, NL>>)

Prepared == call.op = "generate" /\ call.base # EmptyDict

DefaultKeys == {"project_name", "goal", "success_criteria", "platforms"}

DefaultOf(k) ==
    CASE k = "project_name" -> Str(<<"Untitled Project">>)
      [] k = "goal" -> Str(<<"No goal specified.">>)
      [] k = "success_criteria" -> List(<<>>)
      [] k = "platforms" -> List(<<>>)

\* the configuration with the profile merged in, when one is set
MergedConfig ==
    IF ProfileSet(Passed)
    THEN apply_profile(custom_profiles, Passed, Passed["profile"].v).val
    ELSE Passed

\* C15: the mapping generate hands to the template is the profile-merged
\* configuration plus a default for exactly the keys project_name, goal,
\* success_criteria, platforms it lacks; every key it has keeps its value,
\* so criteria and platforms that came from the profile stay.
C15_DefaultsForAbsentKeys ==
    Prepared =>
        /\ DOMAIN call.base = DOMAIN MergedConfig \cup DefaultKeys
        /\ \A k \in DOMAIN MergedConfig : call.base[k] = MergedConfig[k]
        /\ \A k \in DefaultKeys \ DOMAIN MergedConfig :
               call.base[k] = DefaultOf(k)
        /\ (ProfileSet(Passed) /\ "success_criteria" \notin DOMAIN Passed) =>
               call.base["success_criteria"]
                   = PROFILES[Passed["profile"].v].suggested_criteria
        /\ (ProfileSet(Passed) /\ "platforms" \notin DOMAIN Passed) =>
               call.base["platforms"] = PROFILES[Passed["profile"].v].platforms

\* a profile supplies the criteria and the platforms; the name and the goal
\* are defaults
C15_Witness ==
    /\ Prepared
    /\ Passed = [k \in {"profile"} |-> Str(web_app)]
    /\ Len(call.base["success_criteria"].v) = 2
    /\ Len(call.base["platforms"].v) = 2
    /\ call.base["project_name"] = Str(<<"Untitled Project">>)
    /\ call.base["goal"] = Str(<<"No goal specified.">>)

\* C20: right after a generate(c) that returned a text, a second
\* generate(c) on the same object returns the same text and leaves the
\* configuration as the first call left it.
C20_GenerateIdempotent ==
    (call.op = "generate" /\ ret.ok) =>
        /\ GenerateAgain = ret
        /\ caller_config(config) = config

\* without a profile the first call set defaults on the caller's mapping;
\* with a profile it left the mapping alone
C20_Witness ==
    /\ call.op = "generate" /\ ret.ok
    /\ \/ ~ProfileSet(Passed) /\ config # Passed
       \/ ProfileSet(Passed) /\ config = Passed /\ "goal" \notin DOMAIN config

----------------------------------------------------------------------------
(* validate_config on every combination of passing and failing checks *)

ValidateConfigs ==
    { WithKey(WithKey(WithKey(WithKey(WithKey(EmptyDict,
          "project_name", pn), "goal", g), "profile", pr),
          "success_criteria", sc), "platforms", pl) :
        pn \in {Absent, None, Str(<<>>), Str(<<"Test">>)},
        g \in {Absent, Str(<<>>), Str(<<"Build">>)},
        pr \in {Absent, None, Str(web_app), Str(custom_test),
                Str(nonexistent_profile)},
        sc \in {Absent, None, Str(<<"a">>), List(<<>>)},
        pl \in {Absent, Str(<<"Linux">>), List(<< <<"Linux">> >>)} }

InitValidate ==
    /\ custom_profiles = <<>>
    /\ config \in ValidateConfigs
    /\ config0 = config
    /\ goal = None
    /\ call = NoCall
    /\ ret = Return(None)
    /\ adds = <<>>
    /\ EngineIdle

\* errors = generator.validate_config(config)
ValidateConfig ==
    /\ ret' = validate_config(custom_profiles, config)
    /\ call' = [op |-> "validate_config", name |-> <<>>, base |-> config]
    /\ UNCHANGED <<custom_profiles, config, goal, config0, adds>>
    /\ UNCHANGED engine_vars

NextValidate == AddProfile \/ ValidateConfig

SpecValidate == InitValidate /\ [][NextValidate]_vars

----------------------------------------------------------------------------
(* C16: validate_config *)

Checks == {"project_name", "goal", "profile", "success_criteria", "platforms"}

\* a value is there and not empty
NonEmpty(k) == k \in DOMAIN config /\ config[k].t # "none" /\ config[k].v # <<>>

Failed(check) ==
    CASE check = "project_name" -> ~NonEmpty("project_name")
      [] check = "goal" -> ~NonEmpty("goal")
      [] check = "profile" ->
             /\ NonEmpty("profile")
             /\ config["profile"].v \notin KnownNames
      [] check = "success_criteria" ->
             "success_criteria" \in DOMAIN config
                 /\ config["success_criteria"].t # "list"
      [] check = "platforms" ->
             "platforms" \in DOMAIN config /\ config["platforms"].t # "list"

\* the error string of a failed check; the lookup error carries the name
IsErrorOf(check, e) ==
    CASE check = "project_name" -> e = <<"Project name is required">>
      [] check = "goal" -> e = <<"Project goal is required">>
      [] check = "profile" ->
             /\ "profile" \in DOMAIN config
             /\ Contains(e, <<"Profile", " ", "'">> \o config["profile"].v
                                \o <<"'", " ", "not", " ", "found.">>)
      [] check = "success_criteria" -> e = <<"Success criteria must be a list">>
      [] check = "platforms" -> e = <<"Platforms must be a list">>

\* C16: validate_config never raises and returns exactly one error string
\* for each of the five checks that fails, whatever the combination; the
\* list is empty exactly when no check fails.
C16_OneErrorPerFailedCheck ==
    (call.op = "validate_config") =>
        /\ ret.ok
        /\ Len(ret.val.v) = Cardinality({c \in Checks : Failed(c)})
        /\ \A c \in Checks :
               Failed(c) <=> \E i \in DOMAIN ret.val.v : IsErrorOf(c, ret.val.v[i])
        /\ (ret.val.v = <<>>) <=> (\A c \in Checks : ~Failed(c))

\* all five checks fail at once, one of them the lookup of a name that a
\* registered custom profile does not cover
C16_Witness ==
    /\ call.op = "validate_config"
    /\ custom_profiles # <<>>
    /\ \A c \in Checks : Failed(c)
    /\ Len(ret.val.v) = 5

----------------------------------------------------------------------------
(* The template engine as a state machine: templates are registered and     *)
(* rendered in any order                                                    *)

\* "Custom: {{ value }}" of test_add_template and a template that shows the
\* date, after test_render_string_with_custom_template
CustomValueTemplate == <<Lit(<<"Custom: ">>), Var("value")>>
TodayTemplate == <<Lit(<<"Today is ">>), Var("created_date")>>

TemplateStrings == {CustomValueTemplate, TodayTemplate}

RenderNames == {"custom", "llm_init"}

\* lists of names, the empty name among them
NameLists == SeqUpTo({<<>>, <<"React">>}, MaxListLen)

ListValues == {None} \cup {List(l) : l \in NameLists}

\* the variables of a render call: the date given or left out, one of the
\* two lists given or left out
DateValues == {Absent, None, Str(<<>>), Str(<<"1999-12-31">>)}

DateVars ==
    { WithKey([k \in {"project_name"} |-> Str(<<"Test">>)], "created_date", d) :
        d \in DateValues }

ListVars ==
    { WithKey([x \in {"project_name"} |-> Str(<<"Test">>)], key, l) :
        key \in {"frameworks", "platforms"}, l \in ListValues }

RenderVars == DateVars \cup ListVars

\* the registrations tried: a new name, and a built-in name shadowed
Registrations ==
    { <<"custom", CustomValueTemplate>>, <<"llm_init", TodayTemplate>>,
      <<"llm_init", CustomValueTemplate>> }

InitTemplates ==
    /\ custom_profiles = <<>>
    /\ config = EmptyDict
    /\ config0 = config
    /\ goal = None
    /\ call = NoCall
    /\ ret = Return(None)
    /\ adds = <<>>
    /\ args = EmptyDict
    /\ custom_templates = EmptyDict
    /\ loaded = EmptyDict
    /\ fs = EmptyDict
    /\ today \in Dates
    /\ builtin_profiles = PROFILES
    /\ linesep = <<NL>>

\* engine.add_template(name, template_string)
AddTemplate ==
    \E reg \in Registrations :
        /\ Len(adds) < MaxAdds
        /\ custom_templates' = add_template(custom_templates, reg[1], reg[2])
        /\ adds' = Append(adds, [name |-> reg[1], template |-> reg[2]])
        /\ call' = [op |-> "add_template", name |-> <<reg[1]>>, base |-> EmptyDict]
        /\ ret' = Return(None)
        /\ args' = EmptyDict
        /\ UNCHANGED builtin_profiles
        /\ UNCHANGED <<custom_profiles, config, goal, config0, loaded, fs,
                       today, linesep>>

\* engine.render(template_name, variables)
Render ==
    \E template_name \in RenderNames, variables \in RenderVars :
        /\ ret' = render(custom_templates, loaded, template_name, variables, today)
        /\ loaded' = render_cache(custom_templates, loaded, template_name)
        /\ call' = [op |-> "render", name |-> <<template_name>>, base |-> variables]
        /\ args' = EmptyDict
        /\ UNCHANGED builtin_profiles
        /\ UNCHANGED <<custom_profiles, config, goal, config0, adds,
                       custom_templates, fs, today, linesep>>

\* engine.render_string(template_string, variables)
RenderString ==
    \E template_string \in TemplateStrings, variables \in DateVars :
        /\ ret' = render_string(template_string, variables, today)
        /\ call' = [op |-> "render_string", name |-> <<>>, base |-> variables]
        /\ args' = [k \in {"template_string"} |-> template_string]
        /\ UNCHANGED builtin_profiles
        /\ UNCHANGED <<custom_profiles, config, goal, config0, adds,
                       custom_templates, loaded, fs, today, linesep>>

NextTemplates == AddTemplate \/ Render \/ RenderString

SpecTemplates == InitTemplates /\ [][NextTemplates]_vars

----------------------------------------------------------------------------
(* C17, C18, C19: rendering *)

\* the text of the field that follows the label: up to the end of the line
Field(text, label) ==
    LET at == CHOOSE i \in DOMAIN text :
                  text[i] = label /\ \A j \in 1..(i - 1) : text[j] # label
        rest == SubSeq(text, at + 1, Len(text))
        ends == {i \in DOMAIN rest : rest[i] = NL}
        stop == IF ends = {} THEN Len(rest) + 1
                ELSE CHOOSE i \in ends : \A j \in ends : i <= j
    IN SubSeq(rest, 1, stop - 1)

HasField(text, label) == \E i \in DOMAIN text : text[i] = label

DigitValue(sym) == CHOOSE n \in 0..9 : Digits[n + 1] = sym

IsDigits(s) == \A i \in DOMAIN s : \E n \in 0..9 : Digits[n + 1] = s[i]

\* d is date written as YYYY-MM-DD
IsYmdOf(d, date) ==
    /\ Len(d) = 10
    /\ d[5] = "-" /\ d[8] = "-"
    /\ IsDigits(SubSeq(d, 1, 4)) /\ IsDigits(SubSeq(d, 6, 7))
    /\ IsDigits(SubSeq(d, 9, 10))
    /\ 1000 * DigitValue(d[1]) + 100 * DigitValue(d[2])
           + 10 * DigitValue(d[3]) + DigitValue(d[4]) = date.year
    /\ 10 * DigitValue(d[6]) + DigitValue(d[7]) = date.month
    /\ 10 * DigitValue(d[9]) + DigitValue(d[10]) = date.day

DateLabels == {"**Created:** ", "Today is "}

\* the date a rendered text shows
ShownDate ==
    Field(ret.val.v,
          CHOOSE l \in DateLabels : HasField(ret.val.v, l))

ShowsDate ==
    /\ call.op \in {"render", "render_string"}
    /\ ret.ok
    /\ \E l \in DateLabels : HasField(ret.val.v, l)

\* C17: a text rendered by render or render_string shows today's date as
\* YYYY-MM-DD exactly when the caller's variables have no created_date key;
\* when they have one, its value is what the text shows, whatever it is.
C17_CreatedDateDefault ==
    ShowsDate =>
        IF "created_date" \in DOMAIN call.base
        THEN ShownDate = StrOf(call.base["created_date"])
        ELSE IsYmdOf(ShownDate, today)

\* render_string fills in a date whose month and day need a leading zero
C17_Witness ==
    /\ ShowsDate
    /\ call.op = "render_string"
    /\ "created_date" \notin DOMAIN call.base
    /\ ShownDate = <<"2", "0", "2", "6", "-", "0", "1", "-", "0", "5">>

\* the add_template calls made for a name
RegisteredAt(name) == {i \in DOMAIN adds : adds[i].name = name}

\* the template of the latest of them
LastRegistered(name) ==
    adds[CHOOSE i \in RegisteredAt(name) : \A j \in RegisteredAt(name) : j <= i].template

\* C18: render(name, vars) renders the custom template registered last for
\* the name when there is one, also for a built-in name and also when the
\* built-in was rendered before the registration; otherwise the built-in.
C18_CustomShadowsBuiltin ==
    (call.op = "render") =>
        LET name == call.name[1]
            vs == Merge(defaults(today), call.base)
        IN IF RegisteredAt(name) # {}
           THEN ret = TemplateRender(LastRegistered(name), vs)
           ELSE IF name \in TemplateNames
           THEN ret = TemplateRender(TEMPLATES[name], vs)
           ELSE ~ret.ok

\* the built-in init template was rendered and cached, then shadowed, and
\* the next render of the name gives the custom text
C18_Witness ==
    /\ call.op = "render"
    /\ call.name = <<"llm_init">>
    /\ "llm_init" \in DOMAIN loaded
    /\ RegisteredAt("llm_init") # {}
    /\ LastRegistered("llm_init") = CustomValueTemplate
    /\ ret = Return(Str(<<"Custom: ">>))

\* the built-in init document was rendered
InitDocument ==
    /\ call.op = "render"
    /\ call.name = <<"llm_init">>
    /\ RegisteredAt("llm_init") = {}
    /\ ret.ok

ListFields ==
    { <<"frameworks", "- **Frameworks:** ">>,
      <<"platforms", "- **Target platforms:** ">> }

\* C19 as stated: each of the two fields shows the elements joined by ", "
\* for a non-empty list, "Not specified" for an empty, absent or None list,
\* and is never empty.
C19_ListFieldsAsStated ==
    InitDocument =>
        \A f \in ListFields :
            LET x == Get(call.base, f[1], None)
                shown == Field(ret.val.v, f[2])
            IN /\ Truthy(x) => shown = Join(x.v, <<",", " ">>)
               /\ ~Truthy(x) => shown = <<"Not specified">>
               /\ shown # <<>>

\* C19: each of the two fields shows the elements joined by ", " for a
\* non-empty list and "Not specified" for an empty, absent or None list;
\* it is empty only for the list whose single element is the empty string.
C19_ListFields ==
    InitDocument =>
        \A f \in ListFields :
            LET x == Get(call.base, f[1], None)
                shown == Field(ret.val.v, f[2])
            IN /\ Truthy(x) => shown = Join(x.v, <<",", " ">>)
               /\ ~Truthy(x) => shown = <<"Not specified">>
               /\ (shown = <<>>) <=> (x = List(<< <<>> >>))

\* two frameworks joined, the platforms left out
C19_Witness ==
    /\ InitDocument
    /\ Get(call.base, "frameworks", None) = List(<< <<"React">>, <<"React">> >>)
    /\ Field(ret.val.v, "- **Frameworks:** ") = <<"React", ",", " ", "React">>
    /\ Field(ret.val.v, "- **Target platforms:** ") = <<"Not specified">>

----------------------------------------------------------------------------
(* GECKGenerator.init_geck_folder *)

ALL_PLATFORMS ==
    << <<"Windows">>, <<"macOS">>, <<"Linux">>, <<"Docker">>, <<"iOS">>,
       <<"Android">>, <<"Web">> >>

\* str.split(): the runs of symbols between whitespace
RECURSIVE Words(_)
Words(s) ==
    LET t == LStripChars(s, Whitespace) IN
    IF t = <<>> THEN <<>>
    ELSE LET n == IF \A i \in DOMAIN t : t[i] \notin Whitespace THEN Len(t)
                  ELSE (CHOOSE j \in DOMAIN t :
                           /\ t[j] \in Whitespace
                           /\ \A m \in 1..(j - 1) : t[m] \notin Whitespace) - 1
         IN <<SubSeq(t, 1, n)>> \o Words(SubSeq(t, n + 1, Len(t)))

\* What subprocess.run(cmd, capture_output=True, text=True, timeout=...) can
\* do: the command exits with a return code and its output decodes to text,
\* it exits and its output is not text in the locale's encoding, or the
\* call raises before the command has exited.
Exited(code, out) ==
    [kind |-> "exit", returncode |-> code, stdout |-> out, decodes |-> TRUE]
Undecodable(code) ==
    [kind |-> "exit", returncode |-> code, stdout |-> <<>>, decodes |-> FALSE]
Raised(exc) ==
    [kind |-> exc, returncode |-> 0, stdout |-> <<>>, decodes |-> TRUE]

\* except (subprocess.TimeoutExpired, FileNotFoundError, OSError): the
\* classes named and the subclasses of OSError
CaughtByGetVersion ==
    {"TimeoutExpired", "FileNotFoundError", "OSError", "PermissionError"}

\* get_version(cmd) when subprocess.run does what probe says
get_version(probe) ==
    IF probe.kind # "exit"
    THEN IF probe.kind \in CaughtByGetVersion THEN Return(None)
         ELSE Raise(probe.kind, <<>>)
    ELSE IF ~probe.decodes
    THEN Raise("UnicodeDecodeError",
               <<"codec", " ", "can't", " ", "decode", " ", "byte">>)
    ELSE IF probe.returncode = 0
    THEN Return(Str(Split(Strip(probe.stdout), NL)[1]))
    ELSE Return(None)

\* the rows of runtime_versions a tool contributes
VersionRows(tool, version) ==
    IF ~Truthy(version) THEN <<>>
    ELSE IF tool = "Node.js"
    THEN << <<tool, " | ">> \o LStripChars(version.v, {"v"}) >>
    ELSE IF tool = "git"
    THEN IF Len(Words(version.v)) >= 3
         THEN << <<tool, " | ">> \o Words(version.v)[3] >>
         ELSE <<>>
    ELSE << <<tool, " | ">> \o version.v >>

\* _detect_environment() on a machine: its platform, its environment
\* variables and what each probe does; each runtime version is kept as the
\* row of the table it is printed in
_detect_environment(machine, date) ==
    LET shell_info ==
            IF machine.os_name = <<"Windows">>
            THEN IF Get(machine.environ, "PSModulePath", <<>>) # <<>>
                 THEN <<"PowerShell">>
                 ELSE Get(machine.environ, "COMSPEC", <<"cmd.exe">>)
            ELSE <<PathName(Get(machine.environ, "SHELL",
                                    <<"/bin", "/", "bash">>))>>
        node_version == get_version(machine.probes.node)
        npm_version == get_version(machine.probes.npm)
        git_version == get_version(machine.probes.git)
    IN IF ~node_version.ok THEN node_version
       ELSE IF ~npm_version.ok THEN npm_version
       ELSE IF ~git_version.ok THEN git_version
       ELSE Return(
           [k \in {"os_info", "shell_info", "runtime_versions", "timestamp"} |->
               CASE k = "os_info" ->
                      Str(machine.os_name \o <<" ">> \o machine.os_release)
                 [] k = "shell_info" -> Str(shell_info)
                 [] k = "runtime_versions" ->
                      List(<< <<"Python", " | ">> \o machine.python_version >>
                           \o VersionRows("Node.js", node_version.val)
                           \o VersionRows("npm", npm_version.val)
                           \o VersionRows("git", git_version.val))
                 [] k = "timestamp" ->
                      Str(strftime_Ymd(date) \o <<" ", "10:00:00">>)])

\* the machine the documents are generated on: git installed, node and npm
\* not
DevMachine ==
    [os_name |-> <<"Linux">>, os_release |-> <<"6.1">>,
     python_version |-> <<"3.12.0">>,
     environ |-> [v \in {"SHELL"} |-> <<"/bin", "/", "bash">>],
     probes |-> [node |-> Raised("FileNotFoundError"),
                 npm |-> Raised("FileNotFoundError"),
                 git |-> Exited(0, <<"git", " ", "version", " ", "2.39.0", NL>>)]]

\* the five documents in the order they are written: file name, template
\* and template variables
documents(cfg, env_info, initial_tasks, understood_goals) ==
    << [file |-> "LLM_init.md", template |-> "llm_init", vars |-> cfg],
       [file |-> "GECK_Inst.md", template |-> "geck_inst", vars |-> EmptyDict],
       [file |-> "env.md", template |-> "env",
        vars |-> [k \in {"project_name", "timestamp", "os_info", "shell_info",
                         "runtime_versions", "all_platforms",
                         "target_platforms"} |->
                     CASE k = "project_name" -> cfg["project_name"]
                       [] k = "all_platforms" -> List(ALL_PLATFORMS)
                       [] k = "target_platforms" ->
                              Get(cfg, "platforms", List(<<>>))
                       [] OTHER -> env_info[k]]],
       [file |-> "tasks.md", template |-> "tasks",
        vars |-> [k \in {"project_name", "timestamp", "initial_tasks"} |->
                     CASE k = "project_name" -> cfg["project_name"]
                       [] k = "timestamp" -> env_info["timestamp"]
                       [] k = "initial_tasks" -> initial_tasks]],
       [file |-> "log.md", template |-> "log",
        vars |-> [k \in {"project_name", "timestamp", "understood_goals",
                         "initial_tasks"} |->
                     CASE k = "project_name" -> cfg["project_name"]
                       [] k = "timestamp" -> env_info["timestamp"]
                       [] k = "understood_goals" -> understood_goals
                       [] k = "initial_tasks" -> initial_tasks]] >>

\* What the disk does to the writes of one call: the write of document
\* number fail_at raises OSError (0: every write succeeds), either when the
\* file is opened (the file is left as it was) or after it was opened for
\* writing (truncates: the file is left empty).
NoFault == [fail_at |-> 0, truncates |-> FALSE]

OSErrorText == <<"write", " ", "failed">>

\* the fault as the documents after the first see it
later(io) ==
    IF io.fail_at = 0 THEN io ELSE [io EXCEPT !.fail_at = io.fail_at - 1]

write_documents_one_empty_file(ct, cached, files, folder, docs, date, sep, io) ==
    [fs |-> write_file(files, Child(folder, "LLM_init.md"), <<>>, sep),
     loaded |-> cached, ret |-> Return(Str(folder))]

\* a failed write skipped, the remaining documents still written
RECURSIVE write_documents_keeps_going(_, _, _, _, _, _, _, _)
write_documents_keeps_going(ct, cached, files, folder, docs, date, sep, io) ==
    IF docs = <<>>
    THEN [fs |-> files, loaded |-> cached, ret |-> Return(Str(folder))]
    ELSE LET doc == Head(docs)
             content == render(ct, cached, doc.template, doc.vars, date)
             cache_after == render_cache(ct, cached, doc.template)
         IN IF ~content.ok
            THEN [fs |-> files, loaded |-> cache_after, ret |-> content]
            ELSE write_documents_keeps_going(
                     ct, cache_after,
                     IF io.fail_at = 1 THEN files
                     ELSE write_file(files, Child(folder, doc.file),
                                     content.val.v, sep),
                     folder, Tail(docs), date, sep, later(io))

\* render and write the documents one after the other; the first failure,
\* of a render or of a write, ends the call and leaves the documents
\* written so far
RECURSIVE write_documents(_, _, _, _, _, _, _, _)
write_documents(ct, cached, files, folder, docs, date, sep, io) ==
    IF docs = <<>>
    THEN [fs |-> files, loaded |-> cached, ret |-> Return(Str(folder))]
    ELSE LET doc == Head(docs)
             content == render(ct, cached, doc.template, doc.vars, date)
             cache_after == render_cache(ct, cached, doc.template)
         IN IF ~content.ok
            THEN [fs |-> files, loaded |-> cache_after, ret |-> content]
            ELSE IF io.fail_at = 1
            THEN [fs |-> IF io.truncates
                         THEN Put(files, Child(folder, doc.file), Str(<<>>))
                         ELSE files,
                  loaded |-> cache_after,
                  ret |-> Raise("OSError", OSErrorText)]
            ELSE write_documents(
                     ct, cache_after,
                     write_file(files, Child(folder, doc.file), content.val.v, sep),
                     folder, Tail(docs), date, sep, later(io))

\* the lookup of the profile done before the folder is created
init_geck_folder_lookup_first(cp, ct, cached, files, project_path, cfg, date, sep, io) ==
    LET geck_folder == Child(project_path, "GECK")
        made == mkdir(files, geck_folder)
        prepared == prepared_config(cp, cfg)
    IN IF ~prepared.ok
       THEN [fs |-> files, loaded |-> cached, ret |-> prepared]
       ELSE LET env_info == _detect_environment(DevMachine, date).val
                initial_tasks == _derive_initial_tasks(prepared.val)
                understood_goals ==
                    _parse_goal_to_bullets(Get(prepared.val, "goal", Str(<<>>)))
            IN IF ~initial_tasks.ok
               THEN [fs |-> made, loaded |-> cached, ret |-> initial_tasks]
               ELSE write_documents(
                        ct, cached, made, geck_folder,
                        documents(prepared.val, env_info, initial_tasks.val,
                                  understood_goals.val),
                        date, sep, io)

\* init_geck_folder(project_path, config): the disk and the template cache
\* afterwards, and what the call returned or raised
init_geck_folder(cp, ct, cached, files, project_path, cfg, date, sep, io) ==
    LET geck_folder == Child(project_path, "GECK")
        made == mkdir(files, geck_folder)
        prepared == prepared_config(cp, cfg)
    IN IF ~prepared.ok
       THEN [fs |-> made, loaded |-> cached, ret |-> prepared]
       ELSE LET env_info == _detect_environment(DevMachine, date).val
                initial_tasks == _derive_initial_tasks(prepared.val)
                understood_goals ==
                    _parse_goal_to_bullets(Get(prepared.val, "goal", Str(<<>>)))
            IN IF ~initial_tasks.ok
               THEN [fs |-> made, loaded |-> cached, ret |-> initial_tasks]
               ELSE write_documents(
                        ct, cached, made, geck_folder,
                        documents(prepared.val, env_info, initial_tasks.val,
                                  understood_goals.val),
                        date, sep, io)

----------------------------------------------------------------------------
(* init_geck_folder as a state machine: one project root, initialised again *)
(* and again from the configuration object the caller keeps                 *)

ProjectRoot == <<"/proj">>
GeckFolder == Child(ProjectRoot, "GECK")

FolderConfigs ==
    { WithKey(WithKey(WithKey(WithKey(WithKey(WithKey(EmptyDict,
          "project_name", pn), "goal", g), "success_criteria", sc),
          "platforms", pl), "profile", pr), "initial_task", it) :
        pn \in {Absent, Str(<<"Test">>)},
        g \in {Absent, Str(<<"-", " ", "Ship", NL, "Test">>), Str(<<" ">>)},
        sc \in {Absent, None, List(<< <<"Mine">> >>)},
        pl \in {Absent, None, List(<< <<"Linux">>, <<"BSD">> >>)},
        pr \in {Absent, Str(web_app), Str(nonexistent_profile)},
        it \in {Absent, None} }

\* the root alone, and the root with a GECK folder somebody has used
FreshDisk == mkdir(EmptyDict, ProjectRoot)
UsedDisk ==
    write_file(
        write_file(mkdir(FreshDisk, GeckFolder), Child(GeckFolder, "notes.md"),
                   <<"keep">>, <<NL>>),
        Child(GeckFolder, "tasks.md"), <<"mine">>, <<NL>>)

InitFolder ==
    /\ custom_profiles = <<>>
    /\ config \in FolderConfigs
    /\ config0 = config
    /\ goal = None
    /\ call = NoCall
    /\ ret = Return(None)
    /\ adds = <<>>
    /\ args = EmptyDict
    /\ custom_templates = EmptyDict
    /\ loaded = EmptyDict
    /\ fs \in {FreshDisk, UsedDisk}
    /\ today \in Dates
    /\ builtin_profiles = PROFILES
    /\ linesep = <<NL>>

\* folder = generator.init_geck_folder(project_path, config) while the disk
\* treats the writes as io says
InitGeckFolderOn(io) ==
    LET r == init_geck_folder(custom_profiles, custom_templates, loaded, fs,
                              ProjectRoot, config, today, linesep, io)
    IN /\ ret' = r.ret
       /\ fs' = r.fs
       /\ loaded' = r.loaded
       /\ call' = [op |-> "init_geck_folder", name |-> ProjectRoot,
                   base |-> EmptyDict]
       /\ args' = [c \in {"config", "io"} |->
                      IF c = "config" THEN config ELSE io]
       /\ config' = caller_config(config)
       /\ UNCHANGED builtin_profiles
       /\ UNCHANGED <<custom_profiles, goal, config0, adds, custom_templates,
                      today, linesep>>

\* the call on a disk that takes every write
InitGeckFolder == InitGeckFolderOn(NoFault)

NextFolder == InitGeckFolder

SpecFolder == InitFolder /\ [][NextFolder]_vars

----------------------------------------------------------------------------
(* C14: the folder init_geck_folder creates *)

FiveFiles == {"LLM_init.md", "GECK_Inst.md", "env.md", "tasks.md", "log.md"}

\* the entries of a directory
Entries(files, dir) == {p \in DOMAIN files : Len(p) > 1 /\ Parent(p) = dir}

\* C14: a successful init_geck_folder(root, c) on a root without a GECK
\* folder leaves root/GECK a directory holding exactly the five documents,
\* each a non-empty file, and returns root/GECK.
C14_FiveFiles ==
    [][ (call'.op = "init_geck_folder" /\ ret'.ok /\ GeckFolder \notin DOMAIN fs)
          => /\ fs'[GeckFolder] = Dir
             /\ Entries(fs', GeckFolder) = {Child(GeckFolder, f) : f \in FiveFiles}
             /\ \A f \in FiveFiles :
                    /\ fs'[Child(GeckFolder, f)].t = "str"
                    /\ fs'[Child(GeckFolder, f)].v # <<>>
             /\ ret'.val = Str(GeckFolder) ]_vars

\* the folder after a successful call with a profile, the five documents
\* and nothing else in it
C14_Witness ==
    /\ call.op = "init_geck_folder"
    /\ ret = Return(Str(GeckFolder))
    /\ ProfileSet(Passed)
    /\ Entries(fs, GeckFolder) = {Child(GeckFolder, f) : f \in FiveFiles}
    /\ Contains(fs[Child(GeckFolder, "env.md")].v, <<"- [", "x", "] ", "Linux", NL>>)
    /\ Contains(fs[Child(GeckFolder, "log.md")].v, <<"### Understood Goals", NL, "- ", "Ship", NL>>)

----------------------------------------------------------------------------
(* Shape of the parsed goals, checked under SpecGoal *)

\* every bullet is a non-empty string without surrounding whitespace
TrimmedBullets ==
    /\ ret.ok
    /\ Bullets # <<>>
    /\ \A i \in DOMAIN Bullets :
          /\ Bullets[i] # <<>>
          /\ Strip(Bullets[i]) = Bullets[i]

\* C27 as stated: for every goal string, whitespace-only strings included,
\* the result is a non-empty list of non-empty strings without leading or
\* trailing whitespace.
C27_TrimmedBulletsAsStated ==
    (Parsed /\ goal.t = "str") => TrimmedBullets

\* C27 amended: for every goal string that is empty or holds a character
\* that is not whitespace (strings made only of '-' and '*' included), the
\* result is a non-empty list of non-empty strings without leading or
\* trailing whitespace; a whitespace-only goal gives the one empty string.
C27_TrimmedBullets ==
    /\ (Parsed /\ goal.t = "str" /\ (goal.v = <<>> \/ Strip(goal.v) # <<>>))
           => TrimmedBullets
    /\ (Parsed /\ goal.t = "str" /\ goal.v # <<>> /\ Strip(goal.v) = <<>>)
           => ret = Return(List(<<(<<>>)>>))

\* a goal of two lines, the second holding bullet characters only, was
\* parsed into one bullet
C27_Witness ==
    /\ Parsed
    /\ goal = Str(<<"a", NL, "-", "*">>)
    /\ Bullets = <<(<<"a">>)>>

----------------------------------------------------------------------------
(* Frame of the public operations, checked under SpecGen *)

\* C21: generate and generate_to_file leave the caller-supplied
\* configuration mapping as it was passed (same keys, same values), whether
\* or not a profile is set.
C21_ConfigUnchanged ==
    call.op \in {"generate", "generate_to_file"} => config = Passed

----------------------------------------------------------------------------
(* The documents init_geck_folder writes, checked under SpecFolder *)

Initialised == call.op = "init_geck_folder" /\ ret.ok

\* the profile-merged configuration of the last call, defaults set
PreparedPassed == prepared_config(custom_profiles, Passed).val

\* the target platforms handed to the env template
TargetPlatforms ==
    LET l == Items(Get(PreparedPassed, "platforms", List(<<>>)))
    IN {l[i] : i \in DOMAIN l}

\* the line of the Target Platforms section that checks platform x
CheckedEntry(x) == <<"- [", "x", "] ">> \o x \o <<NL>>

\* C29: in the env.md a successful init_geck_folder wrote, platform x is a
\* checked entry if and only if x is a target platform of the
\* profile-merged configuration, for the seven fixed names and for every
\* other target platform.
C29_TargetPlatformsChecked ==
    Initialised =>
        \A x \in {ALL_PLATFORMS[i] : i \in DOMAIN ALL_PLATFORMS} \cup TargetPlatforms :
            x \in TargetPlatforms
                <=> Contains(fs[Child(GeckFolder, "env.md")].v, CheckedEntry(x))


\* the configuration of the last call names a profile that does not resolve
UnresolvedProfile ==
    ProfileSet(Passed) /\ ~get_profile(custom_profiles, Passed["profile"].v).ok

\* C28: when config.profile does not resolve, init_geck_folder raises the
\* lookup error of get_profile before any document is written: every file
\* and directory on disk keeps its content, and the only change is that
\* root/GECK exists as a directory.
C28_LookupFailsBeforeWrites ==
    [][ (call'.op = "init_geck_folder" /\ ProfileSet(config)
            /\ ~get_profile(custom_profiles, config["profile"].v).ok)
          => /\ ret' = get_profile(custom_profiles, config["profile"].v)
             /\ ret'.exc = "KeyError"
             /\ DOMAIN fs' = DOMAIN fs \cup {GeckFolder}
             /\ fs'[GeckFolder] = Dir
             /\ \A p \in DOMAIN fs : fs'[p] = fs[p]
             /\ config' = config ]_vars

\* the call failed on a used folder, whose two files are as they were
C28_Witness ==
    /\ call.op = "init_geck_folder"
    /\ UnresolvedProfile
    /\ ret.exc = "KeyError"
    /\ fs = UsedDisk

----------------------------------------------------------------------------
(* init_geck_folder on a disk that may refuse a write *)

\* the documents in the order of the writes
DocumentOrder ==
    <<"LLM_init.md", "GECK_Inst.md", "env.md", "tasks.md", "log.md">>

Faults ==
    {[fail_at |-> k, truncates |-> t] : k \in DOMAIN DocumentOrder, t \in BOOLEAN}

FaultConfigs ==
    { WithKey(WithKey(EmptyDict, "platforms", pl), "profile", pr) :
        pl \in {Absent, None},
        pr \in {Absent, Str(web_app)} }

InitFaults ==
    /\ builtin_profiles = PROFILES
    /\ custom_profiles = <<>>
    /\ config \in FaultConfigs
    /\ config0 = config
    /\ goal = None
    /\ call = NoCall
    /\ ret = Return(None)
    /\ adds = <<>>
    /\ args = EmptyDict
    /\ custom_templates = EmptyDict
    /\ loaded = EmptyDict
    /\ fs \in {FreshDisk, UsedDisk}
    /\ today = [year |-> 2026, month |-> 1, day |-> 5]
    /\ linesep = <<NL>>

\* a call during which one write raises OSError
WriteFails ==
    \E io \in Faults :
        InitGeckFolderOn(io)

NextFaults == InitGeckFolder \/ WriteFails

SpecFaults == InitFaults /\ [][NextFaults]_vars


----------------------------------------------------------------------------
(* C25: a failed write, checked under SpecFaults *)

\* what the call about to be made does on a root without a GECK folder and
\* a disk that takes every write
OnFreshDisk ==
    init_geck_folder(custom_profiles, custom_templates, loaded, FreshDisk,
                     ProjectRoot, config, today, linesep, NoFault)

DocumentPath(j) == Child(GeckFolder, DocumentOrder[j])

\* C25: the documents are written in the order LLM_init.md, GECK_Inst.md,
\* env.md, tasks.md, log.md.  When the call gets as far as the write of
\* document k and that write raises OSError, the call raises that OSError,
\* the documents before k hold their new content and the documents after k
\* are as they were before the call (absent if they were absent).
C25_WriteFailure ==
    [][ (call'.op = "init_geck_folder" /\ args'["io"].fail_at > 0
            /\ DocumentPath(args'["io"].fail_at) \in DOMAIN OnFreshDisk.fs)
          => LET k == args'["io"].fail_at IN
             /\ ret' = Raise("OSError", OSErrorText)
             /\ \A j \in 1..(k - 1) :
                    fs'[DocumentPath(j)] = OnFreshDisk.fs[DocumentPath(j)]
             /\ \A j \in (k + 1)..Len(DocumentOrder) :
                    /\ DocumentPath(j) \in DOMAIN fs' <=> DocumentPath(j) \in DOMAIN fs
                    /\ DocumentPath(j) \in DOMAIN fs =>
                           fs'[DocumentPath(j)] = fs[DocumentPath(j)] ]_vars

\* the third write failed on a used folder: LLM_init.md and GECK_Inst.md
\* are new, tasks.md is as its owner left it, log.md was never written
C25_Witness ==
    /\ call.op = "init_geck_folder"
    /\ args["io"].fail_at = 3
    /\ ret = Raise("OSError", OSErrorText)
    /\ Contains(fs[Child(GeckFolder, "LLM_init.md")].v, <<"# Project: ", "Untitled Project", NL>>)
    /\ Child(GeckFolder, "GECK_Inst.md") \in DOMAIN fs
    /\ Child(GeckFolder, "tasks.md") \in DOMAIN fs
    /\ fs[Child(GeckFolder, "tasks.md")] = Str(<<"mine">>)
    /\ Child(GeckFolder, "log.md") \notin DOMAIN fs

----------------------------------------------------------------------------
(* init_geck_folder called again and again on a folder whose owner edits    *)
(* the documents between the calls                                          *)

EditedText == <<"edited", NL>>

EditConfigs ==
    { WithKey(WithKey(WithKey(EmptyDict,
          "project_name", pn), "platforms", pl), "profile", pr) :
        pn \in {Absent, Str(<<"Test">>)},
        pl \in {Absent, None},
        pr \in {Absent, Str(web_app)} }

InitEdits ==
    /\ builtin_profiles = PROFILES
    /\ custom_profiles = <<>>
    /\ config \in EditConfigs
    /\ config0 = config
    /\ goal = None
    /\ call = NoCall
    /\ ret = Return(None)
    /\ adds = <<>>
    /\ args = EmptyDict
    /\ custom_templates = EmptyDict
    /\ loaded = EmptyDict
    /\ fs \in {FreshDisk, UsedDisk}
    /\ today = [year |-> 2026, month |-> 1, day |-> 5]
    /\ linesep = <<NL>>

\* the owner of the folder replaces the text of one of the five documents
EditFile ==
    \E f \in FiveFiles :
        /\ Len(adds) < MaxEdits
        /\ Child(GeckFolder, f) \in DOMAIN fs
        /\ fs' = Put(fs, Child(GeckFolder, f), Str(EditedText))
        /\ adds' = Append(adds, [name |-> f, text |-> EditedText])
        /\ call' = [op |-> "edit", name |-> Child(GeckFolder, f),
                    base |-> EmptyDict]
        /\ ret' = Return(None)
        /\ UNCHANGED <<builtin_profiles, custom_profiles, config, goal, config0,
                       args, custom_templates, loaded, today, linesep>>

NextEdits == InitGeckFolder \/ EditFile

SpecEdits == InitEdits /\ [][NextEdits]_vars

\* what the last call does on a root without a GECK folder
LastCallOnFreshDisk ==
    init_geck_folder(custom_profiles, custom_templates, loaded, FreshDisk,
                     ProjectRoot, Passed, today, linesep, NoFault)

\* C24: whatever the folder held before a call of init_geck_folder (files of
\* earlier calls, manual edits), the call ends as it does on a root without
\* a GECK folder, and when it succeeds it returns root/GECK and each of the
\* five documents holds exactly the text the call rendered: what it holds
\* after the same call on a root without a GECK folder.
C24_Overwrites ==
    call.op = "init_geck_folder" =>
        /\ ret = LastCallOnFreshDisk.ret
        /\ ret.ok =>
              /\ ret.val = Str(GeckFolder)
              /\ \A f \in FiveFiles :
                     fs[Child(GeckFolder, f)]
                         = LastCallOnFreshDisk.fs[Child(GeckFolder, f)]

\* a folder created by a first call, edited by hand, and initialised again
\* from the configuration the first call left
C24_Witness ==
    /\ Initialised
    /\ Child(GeckFolder, "notes.md") \notin DOMAIN fs
    /\ Len(adds) > 0
    /\ fs[Child(GeckFolder, adds[1].name)] # Str(adds[1].text)
    /\ config = Passed
    /\ config # config0

----------------------------------------------------------------------------
(* The life of one configuration object a profile has been applied to: the  *)
(* caller holds the mapping apply_profile returned and passes it to the     *)
(* generator and to the profile manager again                               *)

AppliedConfigs ==
    { apply_profile(<<>>, c, name).val :
        c \in { WithKey(WithKey(WithKey(EmptyDict,
                    "project_name", pn), "platforms", pl), "profile", pr) :
                  pn \in {Absent, Str(<<"Test">>)},
                  pl \in {Absent, None},
                  pr \in {Absent, None, Str(library), Str(nonexistent_profile)} },
        name \in {web_app, library} }

InitApplied ==
    /\ builtin_profiles = PROFILES
    /\ custom_profiles = <<>>
    /\ config \in AppliedConfigs
    /\ config0 = config
    /\ goal = None
    /\ call = NoCall
    /\ ret = Return(None)
    /\ adds = <<>>
    /\ args = EmptyDict
    /\ custom_templates = EmptyDict
    /\ loaded = EmptyDict
    /\ fs = FreshDisk
    /\ today = [year |-> 2026, month |-> 1, day |-> 5]
    /\ linesep = <<NL>>

\* other = manager.apply_profile(config, name): the result is a new mapping,
\* the one passed stays in the caller's hands as it is
ApplyProfileAgain ==
    \E name \in LookupNames :
        /\ ret' = apply_profile(custom_profiles, config, name)
        /\ call' = [op |-> "apply_profile", name |-> name, base |-> config]
        /\ args' = [c \in {"config"} |-> config]
        /\ UNCHANGED <<builtin_profiles, custom_profiles, config, goal, config0,
                       adds, custom_templates, loaded, fs, today, linesep>>

\* errors = generator.validate_config(config)
ValidateApplied ==
    /\ ret' = validate_config(custom_profiles, config)
    /\ call' = [op |-> "validate_config", name |-> <<>>, base |-> config]
    /\ args' = [c \in {"config"} |-> config]
    /\ UNCHANGED <<builtin_profiles, custom_profiles, config, goal, config0,
                   adds, custom_templates, loaded, fs, today, linesep>>

NextApplied ==
    ApplyProfileAgain \/ ValidateApplied \/ Generate \/ InitGeckFolder

SpecApplied == InitApplied /\ [][NextApplied]_vars

ProfileMetadata == {"_profile_name", "_profile_display_name"}

\* C23: a configuration that carries the metadata of an applied profile
\* keeps both keys with their values through every later apply_profile,
\* validate_config, generate and init_geck_folder call made on it.
C23_MetadataStable ==
    [][ ProfileMetadata \subseteq DOMAIN config
          => /\ ProfileMetadata \subseteq DOMAIN config'
             /\ \A k \in ProfileMetadata : config'[k] = config[k] ]_vars

\* generate ran on an applied configuration whose profile key names another
\* profile: the template received that profile's metadata, the object kept
\* its own
C23_Witness ==
    /\ call.op = "generate" /\ ret.ok
    /\ ProfileSet(config)
    /\ config["_profile_name"] = Str(web_app)
    /\ call.base["_profile_name"] = Str(library)
    /\ config = config0

----------------------------------------------------------------------------
(* One generator with custom profiles, asked to validate a configuration    *)
(* and to generate from it                                                  *)

AgreeConfigs ==
    { WithKey(WithKey(EmptyDict, "project_name", pn), "profile", pr) :
        pn \in {Absent, Str(<<"Test">>)},
        pr \in {Absent, None, Str(<<>>), Str(web_app), Str(custom_test),
                Str(nonexistent_profile)} }

InitAgree ==
    /\ builtin_profiles = PROFILES
    /\ custom_profiles = <<>>
    /\ config \in AgreeConfigs
    /\ config0 = config
    /\ goal = None
    /\ call = NoCall
    /\ ret = Return(None)
    /\ adds = <<>>
    /\ args = EmptyDict
    /\ custom_templates = EmptyDict
    /\ loaded = EmptyDict
    /\ fs = FreshDisk
    /\ today = [year |-> 2026, month |-> 1, day |-> 5]
    /\ linesep = <<NL>>

NextAgree == AddProfile \/ ValidateConfig \/ Generate \/ InitGeckFolder

SpecAgree == InitAgree /\ [][NextAgree]_vars

NotFoundText == <<"'", " ", "not", " ", "found.", " ", "Available:">>

\* the list validate_config returned holds a profile-lookup error
ReportsLookup(r) ==
    r.ok /\ \E i \in DOMAIN r.val.v : Contains(r.val.v[i], NotFoundText)

\* the call raised the lookup error of get_profile
LookupFailure(r) ==
    ~r.ok /\ r.exc = "KeyError" /\ Contains(r.val.v, NotFoundText)

GenerateNow ==
    generate(custom_profiles, custom_templates, loaded, config, today)

InitGeckFolderNow ==
    init_geck_folder(custom_profiles, custom_templates, loaded, fs,
                     ProjectRoot, config, today, linesep, NoFault).ret

ValidateNow == validate_config(custom_profiles, config)

\* C30: on one generator, with whatever custom profiles are registered,
\* validate_config(c) reports a profile-lookup error exactly when
\* generate(c) and init_geck_folder(root, c) raise the lookup error: the
\* outcome of each of the three calls agrees with what the other two do on
\* the same configuration.
C30_LookupAgreement ==
    /\ call.op = "validate_config" =>
          /\ ReportsLookup(ret) <=> LookupFailure(GenerateNow)
          /\ ReportsLookup(ret) <=> LookupFailure(InitGeckFolderNow)
    /\ call.op = "generate" =>
          /\ LookupFailure(ret) <=> ReportsLookup(ValidateNow)
          /\ LookupFailure(ret) <=> LookupFailure(InitGeckFolderNow)
    /\ call.op = "init_geck_folder" =>
          /\ LookupFailure(ret) <=> ReportsLookup(ValidateNow)
          /\ LookupFailure(ret) <=> LookupFailure(GenerateNow)

\* a custom profile was registered and the configuration names it:
\* validation reports no lookup error and generation succeeds
C30_Witness ==
    /\ call.op = "validate_config"
    /\ ProfileSet(config)
    /\ config["profile"] = Str(custom_test)
    /\ InCustom(custom_profiles, custom_test)
    /\ ~ReportsLookup(ret)
    /\ GenerateNow.ok

----------------------------------------------------------------------------
(* The environment detector on every machine of a small family: each probe  *)
(* ends in one of the ways subprocess.run can end                           *)

ToolNames == [node |-> "Node.js", npm |-> "npm", git |-> "git"]

VersionOutput(tool) ==
    CASE tool = "node" -> <<"v", "20.1.0", NL>>
      [] tool = "npm" -> <<"10.2.0", NL>>
      [] tool = "git" -> <<"git", " ", "version", " ", "2.39.0", NL>>

ProbeOutcomes(tool) ==
    {Exited(0, VersionOutput(tool)), Exited(0, <<>>), Exited(1, <<>>),
     Undecodable(0), Undecodable(1),
     Raised("TimeoutExpired"), Raised("FileNotFoundError"),
     Raised("PermissionError")}

Machines ==
    { [os_name |-> p.os_name, os_release |-> p.os_release,
       python_version |-> <<"3.12.0">>, environ |-> p.environ,
       probes |-> [node |-> n, npm |-> m, git |-> g]] :
        p \in { [os_name |-> <<"Linux">>, os_release |-> <<"6.1">>,
                 environ |-> [v \in {"SHELL"} |-> <<"/usr", "/", "bin", "/", "zsh">>]],
                [os_name |-> <<"Linux">>, os_release |-> <<"6.1">>,
                 environ |-> EmptyDict],
                [os_name |-> <<"Windows">>, os_release |-> <<"11">>,
                 environ |-> [v \in {"PSModulePath"} |-> <<"C:\\Modules">>]],
                [os_name |-> <<"Windows">>, os_release |-> <<"11">>,
                 environ |-> EmptyDict] },
        n \in ProbeOutcomes("node"),
        m \in ProbeOutcomes("npm"),
        g \in ProbeOutcomes("git") \cup {Exited(0, <<"git", " ", "2.39.0", NL>>)} }

InitEnv ==
    /\ builtin_profiles = PROFILES
    /\ custom_profiles = <<>>
    /\ config = EmptyDict
    /\ config0 = config
    /\ goal = None
    /\ call = NoCall
    /\ ret = Return(None)
    /\ adds = <<>>
    /\ args \in Machines
    /\ custom_templates = EmptyDict
    /\ loaded = EmptyDict
    /\ fs = EmptyDict
    /\ today = [year |-> 2026, month |-> 1, day |-> 5]
    /\ linesep = <<NL>>

\* env_info = _detect_environment() on the machine args describes
DetectEnvironment ==
    /\ call.op = "none"
    /\ ret' = _detect_environment(args, today)
    /\ call' = [op |-> "_detect_environment", name |-> <<>>, base |-> EmptyDict]
    /\ UNCHANGED <<builtin_profiles, custom_profiles, config, goal, config0,
                   adds, args, custom_templates, loaded, fs, today, linesep>>

NextEnv == DetectEnvironment

SpecEnv == InitEnv /\ [][NextEnv]_vars

\* the probe of a tool did not end with return code 0
ProbeFailed(probe) == probe.kind # "exit" \/ probe.returncode # 0

\* runtime_versions has an entry for the tool
HasVersion(env_info, tool) ==
    \E i \in DOMAIN env_info["runtime_versions"].v :
        env_info["runtime_versions"].v[i][1] = tool

\* C26: whatever each probe does, the detector returns os_info, shell_info,
\* runtime_versions and timestamp, runtime_versions holds Python, and a tool
\* whose probe failed is absent from runtime_versions.
C26_DetectorNeverRaises ==
    call.op = "_detect_environment" =>
        /\ ret.ok
        /\ DOMAIN ret.val = {"os_info", "shell_info", "runtime_versions",
                             "timestamp"}
        /\ HasVersion(ret.val, "Python")
        /\ \A t \in DOMAIN ToolNames :
               ProbeFailed(args.probes[t]) => ~HasVersion(ret.val, ToolNames[t])

----------------------------------------------------------------------------
(* The built-in profile table.  ProfileManager.__init__ copies PROFILES     *)
(* shallowly and get_profile returns the stored record itself, so a caller  *)
(* can hand a built-in record back to add_profile, which writes to its      *)
(* argument.  builtin_profiles follows those records; the lookups read      *)
(* PROFILES, which the records equal for as long as C22 holds.              *)

\* the display name set whatever the record holds
add_profile_argument_renamed(name, profile) ==
    Put(profile, "name", Str(TitleName(name)))

\* the dictionary passed to add_profile(name, profile) after the call
add_profile_argument(name, profile) ==
    IF "name" \notin DOMAIN profile
    THEN Put(profile, "name", Str(TitleName(name)))
    ELSE profile

TableConfigs ==
    { WithKey(EmptyDict, "profile", pr) :
        pr \in {Str(web_app), Str(custom_test)} }

InitTable ==
    /\ builtin_profiles = PROFILES
    /\ custom_profiles = <<>>
    /\ config \in TableConfigs
    /\ config0 = config
    /\ goal = None
    /\ call = NoCall
    /\ ret = Return(None)
    /\ adds = <<>>
    /\ args = EmptyDict
    /\ custom_templates = EmptyDict
    /\ loaded = EmptyDict
    /\ fs = FreshDisk
    /\ today = [year |-> 2026, month |-> 1, day |-> 5]
    /\ linesep = <<NL>>

\* manager.add_profile(name, manager.get_profile(builtin)): the record
\* registered is the built-in record itself, and what add_profile does to
\* its argument it does to the table
AddBuiltinProfile ==
    \E name \in {web_app}, builtin \in {library} :
        LET profile == builtin_profiles[builtin] IN
        /\ Len(adds) < MaxAdds
        /\ builtin_profiles' =
               [builtin_profiles EXCEPT
                   ![builtin] = add_profile_argument(name, profile)]
        /\ custom_profiles' = add_profile(custom_profiles, name, profile)
        /\ adds' = Append(adds, [name |-> name, profile |-> profile])
        /\ call' = [op |-> "add_profile", name |-> name, base |-> EmptyDict]
        /\ ret' = Return(None)
        /\ UNCHANGED <<config, goal, config0, args, custom_templates, loaded,
                       fs, today, linesep>>

NextTable ==
    \/ AddProfile
    \/ AddBuiltinProfile
    \/ GetProfile
    \/ ApplyProfileAgain
    \/ ValidateConfig
    \/ Generate
    \/ InitGeckFolder

SpecTable == InitTable /\ [][NextTable]_vars

\* C22: through every sequence of add_profile, get_profile, apply_profile,
\* generate, init_geck_folder and validate_config calls each built-in
\* profile record keeps the field values it was loaded with, and a profile
\* added under any name, the name of a built-in profile included, is held
\* by the custom mapping.
C22_BuiltinsUnchanged ==
    /\ builtin_profiles = PROFILES
    /\ call.op = "add_profile" =>
          /\ InCustom(custom_profiles, call.name)
          /\ CustomAt(custom_profiles, call.name)
                 = add_profile_argument(call.name, Last(adds).profile)

\* the built-in library record was registered under the name web_app: the
\* custom mapping answers for web_app with it, the table still holds both
\* records as loaded
C22_Witness ==
    /\ call.op = "add_profile"
    /\ call.name = web_app
    /\ InCustom(custom_profiles, web_app)
    /\ CustomAt(custom_profiles, web_app) = PROFILES[library]
    /\ builtin_profiles[web_app] = PROFILES[web_app]
    /\ builtin_profiles[web_app] # CustomAt(custom_profiles, web_app)

====
